---- MODULE Spec2Model ----
(***************************************************************************)
(* Verification model of qnet_sim: a discrete-event simulator of a quantum *)
(* entanglement-distribution network.                                      *)
(*                                                                         *)
(* The module holds several specifications over one set of variables:      *)
(*   SpecQueue  the event queue and the main loop of Simulation::run       *)
(*   SpecNic    one Nic driven by add_epr_pair / used / consume            *)
(*   SpecReg    the EprRegister driven by new_epr_pair / consume           *)
(*   SpecTopo   the random-greedy physical-to-logical construction         *)
(*   SpecSim    the Network: generators, notifications, requests           *)
(*   SpecSetup  Simulation::new, create_applications and the first events  *)
(*   SpecRun    the main loop of Simulation::run and the output            *)
(*   SpecPing   the Pinger and the Ponger on the Network                   *)
(*   SpecFid    utils::fidelity on the fidelities a configuration accepts  *)
(*   SpecEs     the Network when remote entanglement swapping may fail     *)
(*   SpecApp    the Network with requests over every logical path          *)
(*   SpecXfer   the classical transfer of events between two nodes         *)
(*   SpecGen    the EPR generators of the logical edges                    *)
(*   SpecNotify the Network from a state with a request for an edge        *)
(*   SpecMain   the worker pool of main and the collection of outputs      *)
(*   SpecDet    two replications of one configuration and seed             *)
(*   SpecClient one Client driven by its four application events           *)
(*   SpecGrid   PhysicalTopology::from_grid_static over the grid shapes    *)
(*   SpecTopoLive  SpecTopo with the construction always taking a step     *)
(*   SpecRunLive   Simulation::run with the loop always taking a step      *)
(*   SpecSched  the requests of one node toward a peer and its master Nic  *)
(***************************************************************************)
EXTENDS Integers, Sequences, FiniteSets, Bags, TLC

\* ------------------------------------------------------------------ bounds
\* Scaled stand-in for 2^64, the width of Event::time.
TimeModulus == 8
\* Largest relative delay of a pushed event.
MaxDelay == 7
\* Largest number of events waiting in the queue.
MaxQueue == 2
\* Number of memory cells of the Nic of SpecNic.
NicSize == 2
\* Largest simulated time at which a pair is stored in the Nic of SpecNic.
MaxNow == 2
\* Number of nodes; node identifiers are 0..NumNodes-1.
NumNodes == 3
\* Largest number of EPR pairs a run creates.
MaxPairs == 2
\* Largest creation time of a pair in SpecReg.
MaxUpdated == 1
\* Largest memory_qubits, detectors and transmitters of a physical node.
MaxMemory == 3
MaxDetectors == 2
MaxTransmitters == 2
\* Time of ExperimentEnd in SpecSim.
Duration == 1
\* Largest delay of an event scheduled after a random time or a transfer.
MaxStep == 0
\* Largest number of EPR pairs generated in a run of SpecSim.
MaxGenerated == 2
\* Largest number of requests the Client makes in a run of SpecSim.
MaxRequests == 1
\* Largest number of applications of a Random source_dest_pairs.
MaxApplications == 1
\* Largest number of EsRemoteFailed events handled in a run of SpecEs.
MaxRemoteFailed == 1
\* Largest number of events the nodes emit in a run of SpecXfer.
MaxTransfers == 3
\* Largest number of seeds and of workers in a run of SpecMain.
MaxSeeds == 3
MaxConcurrency == 2
\* Largest max_requests of the Pinger of SpecPing.
MaxPingRequests == 2
\* Largest decay_rate of a node and largest holding time of a pair.
MaxDecayRate == 2
MaxHoldingTime == 3
\* Duration of the experiment, in quarters of a nanosecond.
RunDuration == 200
\* Time to the first event of an EPR generator, in nanoseconds.
NetStep == 20

VARIABLES
    \* EventQueue (event_queue.rs) and the main loop of Simulation::run
    queue,            \* EventQueue::queue, the events of the binary heap
    last_time,        \* EventQueue::last_time
    run_last_time,    \* local `last_time` of Simulation::run
    handling,         \* the event popped by the main loop and being handled
    run_status,       \* "running", or the panic that stopped the run
    overflow_checks,  \* build profile: TRUE panics on integer overflow
    \* one Nic (nic.rs) and the last call made on it
    memory_cells,     \* Nic::memory_cells
    nic_prev,         \* memory_cells before the last call
    nic_call,         \* the last call: [op, now, id]
    nic_ret,          \* its return value
    nic_qubits,       \* memory_qubits of the logical edge the Nic was made for
    used_true,        \* per pair id: times used(id) returned true since id was admitted
    \* EprRegister (epr_register.rs) and the last call made on it
    epr_pairs,        \* EprRegister::epr_pairs
    last_epr_pair_id, \* EprRegister::last_epr_pair_id
    reg_prev,         \* epr_pairs before the last call
    reg_call,         \* the last call: [op, id, node]
    reg_ret,          \* its return value
    issued,           \* the identifiers returned by new_epr_pair, in order
    origin,           \* per issued id: the arguments of new_epr_pair
    consumed_by,      \* per issued id: the endpoints that consumed their half
    consumed_prev,    \* consumed_by before the last call
    \* physical_to_logical_random_greedy (logical_topology.rs)
    physical,         \* the physical topology: node types, edges, node weights
    residual,         \* node weights of the local clone `physical_graph`
    logical_graph,    \* the logical edges admitted so far
    possible_logical_edges, \* candidates of the shuffled list not yet admitted
    candidate_edges,  \* residual-memory pass: edges still to visit
    candidate_edges_new,    \* residual-memory pass: edges that got a qubit
    topo_pc,          \* position in the construction
    \* Simulation (simulation.rs): the event queue, the Network and the apps
    events,           \* Simulation::events, the events of the queue
    clock,            \* EventQueue::last_time, the time of the last pop
    nics_master,      \* per node: Node::nics_master, peer -> cells
    nics_slave,       \* per node: Node::nics_slave, peer -> cells
    epr_register,     \* Network::epr_register
    pending_requests, \* per node: Node::pending_requests, peer -> requests
    client,           \* the Client: next_request_id and pending
    server,           \* the Server: pending
    latency,          \* delay of a transfer between the two ground stations
    sim_status,       \* "running", "ended", or the panic that stopped the run
    \* Simulation::new and Simulation::run around the network (simulation.rs)
    run_pc,           \* position in Simulation::new / Simulation::run
    config,           \* the user configuration of the replication
    network,          \* Network: its nodes and EPR generators
    applications,     \* the (this_node_id, peer_node_id) pairs given applications
    run_events,       \* Simulation::events, the events of the queue
    run_clock,        \* EventQueue::last_time
    num_events,       \* local `num_events` of Simulation::run
    logical_topology_found, \* local `logical_topology_found` of Simulation::run
    single,           \* Simulation::single: enabled and the one-time scalars
    series,           \* Simulation::series: enabled and the stored samples
    \* the Pinger (apps/pinger.rs) of a network that runs Pinger and Ponger
    pinger,           \* the Pinger: next_request_id, created, max_requests
    pinger_responses, \* number of EprResponse events the Pinger has handled
    \* utils::fidelity as Network::handle_epr_fidelity calls it
    fidelity_input,   \* the pair measured: f_init, decay_rate, time
    fidelity_sample,  \* the fidelity sample computed for it
    \* record of what the source node did on EsRemoteComplete / EsRemoteFailed
    es_responses,     \* per five-tuple: EprResponse (is_source) events produced
    es_failed,        \* the five-tuples of the EsRemoteFailed events handled
    \* events on their way between nodes (Network::handle, Node::handle)
    xfer_events,      \* the events of the queue, each with its transfer
    xfer_clock,       \* EventQueue::last_time
    xfer_handled,     \* the events Node::handle was given
    xfer_sent,        \* number of events the nodes have emitted
    xfer_status,      \* "running", or the panic that stopped the run
    \* the worker pool of main (bin/main.rs)
    configurations,   \* the configurations not yet taken, last one popped first
    seed_outcome,     \* per seed: what Simulation::new and run do with it
    worker_pc,        \* per worker: where the task is
    worker_config,    \* per worker: the configuration popped
    channel,          \* outputs sent and not yet received
    outputs,          \* the outputs main has received
    main_pc,          \* where main is
    \* two replications of one configuration and seed (simulation.rs run)
    det_samples,      \* the delays each generator's rng yields, fixed by the seed
    det_heap,         \* per replication, the vector of the BinaryHeap of events
    det_last_id,      \* per replication, EprRegister::last_epr_pair_id
    det_drawn,        \* per replication and generator, the samples drawn so far
    det_handled,      \* per replication, the events handled so far, in order
    det_status,       \* per replication, running or ended
    \* a Client application on its own (client.rs)
    cl_pending,       \* Client::pending, request id to EprRequest
    cl_next_id,       \* Client::next_request_id
    cl_now,           \* the time of the event handled last
    cl_latency,       \* the latency samples returned so far, with their request
    cl_done,          \* per request, which completions were handled and which came last
    cl_status,        \* running, or the panic that ended the replication
    \* the construction of the grid physical topology (physical_topology.rs)
    grid_params,      \* num_orbits and orbit_length
    grid_edges,       \* the edges added to the graph so far, a bag of sets of end nodes
    grid_pc,          \* orbit, ground or done
    grid_ndx,         \* the position of the two nested loops, j + i * orbit_length
    \* the requests of one node toward one peer and its master Nic (node.rs)
    sq_requests,      \* pending_requests[peer], a vector of requests
    sq_cells,         \* the cells of the master Nic toward the peer
    sq_next_request,  \* the request_id of the next request of the client
    sq_next_pair,     \* the identifier, and time, of the next EPR pair
    sq_answered,      \* the cells handed to the application with an EprResponse
    sq_requeued       \* the request ids queued again after an EsRemoteFailed

queueVars == <<queue, last_time, run_last_time, handling, run_status, overflow_checks>>

nicVars == <<memory_cells, nic_prev, nic_call, nic_ret, nic_qubits, used_true>>

regVars == <<epr_pairs, last_epr_pair_id, reg_prev, reg_call, reg_ret,
             issued, origin, consumed_by, consumed_prev>>

topoVars == <<physical, residual, logical_graph, possible_logical_edges,
              candidate_edges, candidate_edges_new, topo_pc>>

simVars == <<events, clock, nics_master, nics_slave, epr_register, pending_requests,
             client, server, latency, sim_status>>

runVars == <<run_pc, config, network, applications, run_events, run_clock,
             num_events, logical_topology_found, single, series>>

pingVars == <<pinger, pinger_responses>>

fidVars == <<fidelity_input, fidelity_sample>>

esVars == <<es_responses, es_failed>>

xferVars == <<xfer_events, xfer_clock, xfer_handled, xfer_sent, xfer_status>>

mainVars == <<configurations, seed_outcome, worker_pc, worker_config, channel, outputs, main_pc>>

detVars == <<det_samples, det_heap, det_last_id, det_drawn, det_handled, det_status>>

clientVars == <<cl_pending, cl_next_id, cl_now, cl_latency, cl_done, cl_status>>

gridVars == <<grid_params, grid_edges, grid_pc, grid_ndx>>

schedVars == <<sq_requests, sq_cells, sq_next_request, sq_next_pair, sq_answered, sq_requeued>>

vars == <<queueVars, nicVars, regVars, topoVars, simVars, runVars, pingVars, fidVars,
          esVars,
          xferVars,
          mainVars,
          detVars,
          clientVars,
          gridVars,
          schedVars>>

\* What an action of one component leaves alone.
notQueue == <<nicVars, regVars, topoVars, simVars, runVars, pingVars, fidVars,
    esVars,
    xferVars,
    mainVars,
    detVars,
    clientVars,
    gridVars,
    schedVars>>
notNic == <<queueVars, regVars, topoVars, simVars, runVars, pingVars, fidVars,
    esVars,
    xferVars,
    mainVars,
    detVars,
    clientVars,
    gridVars,
    schedVars>>
notReg == <<queueVars, nicVars, topoVars, simVars, runVars, pingVars, fidVars,
    esVars,
    xferVars,
    mainVars,
    detVars,
    clientVars,
    gridVars,
    schedVars>>
notTopo == <<queueVars, nicVars, regVars, simVars, runVars, pingVars, fidVars,
    esVars,
    xferVars,
    mainVars,
    detVars,
    clientVars,
    gridVars,
    schedVars>>
notSim == <<queueVars, nicVars, regVars, topoVars, runVars, pingVars, fidVars,
    esVars,
    xferVars,
    mainVars,
    detVars,
    clientVars,
    gridVars,
    schedVars>>
notRun == <<queueVars, nicVars, regVars, topoVars, simVars, pingVars, fidVars,
    esVars,
    xferVars,
    mainVars,
    detVars,
    clientVars,
    gridVars,
    schedVars>>
notPing == <<queueVars, nicVars, regVars, topoVars, runVars, fidVars,
    esVars,
    xferVars,
    mainVars,
    detVars,
    clientVars,
    gridVars,
    schedVars>>

\* No topology is under construction in the specification at hand.
TopoIdle ==
    /\ physical = <<>>
    /\ residual = <<>>
    /\ logical_graph = {}
    /\ possible_logical_edges = {}
    /\ candidate_edges = <<>>
    /\ candidate_edges_new = <<>>
    /\ topo_pc = "idle"

\* No simulation is running in the specification at hand.
SimIdle ==
    /\ events = EmptyBag
    /\ clock = 0
    /\ nics_master = <<>>
    /\ nics_slave = <<>>
    /\ epr_register = <<>>
    /\ pending_requests = <<>>
    /\ client = <<>>
    /\ server = <<>>
    /\ latency = 0
    /\ sim_status = "idle"

notFid == <<queueVars, nicVars, regVars, topoVars, simVars, runVars, pingVars,
    esVars,
    xferVars,
    mainVars,
    detVars,
    clientVars,
    gridVars,
    schedVars>>

notEs == <<queueVars, nicVars, regVars, topoVars, runVars, pingVars, fidVars,
    xferVars,
    mainVars,
    detVars,
    clientVars,
    gridVars,
    schedVars>>

\* Nothing is recorded of EsRemoteComplete and EsRemoteFailed.
EsIdle ==
    /\ es_responses = <<>>
    /\ es_failed = <<>>

notXfer == <<queueVars, nicVars, regVars, topoVars, simVars, runVars, pingVars, fidVars, esVars,
    mainVars,
    detVars,
    clientVars,
    gridVars,
    schedVars>>

\* Idle: events on their way between nodes (Network::handle, Node::handle)
XferIdle ==
    /\ xfer_events = <<>>
    /\ xfer_clock = 0
    /\ xfer_handled = {}
    /\ xfer_sent = 0
    /\ xfer_status = "idle"

notMain == <<queueVars, nicVars, regVars, topoVars, simVars, runVars, pingVars, fidVars, esVars, xferVars,
    detVars,
    clientVars,
    gridVars,
    schedVars>>

\* Idle: the worker pool of main (bin/main.rs)
MainIdle ==
    /\ configurations = <<>>
    /\ seed_outcome = <<>>
    /\ worker_pc = <<>>
    /\ worker_config = <<>>
    /\ channel = <<>>
    /\ outputs = <<>>
    /\ main_pc = "idle"

notDet == <<queueVars, nicVars, regVars, topoVars, simVars, runVars, pingVars, fidVars, esVars, xferVars, mainVars,
    clientVars,
    gridVars,
    schedVars>>

\* Idle: two replications of one configuration and seed (simulation.rs run)
DetIdle ==
    /\ det_samples = <<>>
    /\ det_heap = <<>>
    /\ det_last_id = <<>>
    /\ det_drawn = <<>>
    /\ det_handled = <<>>
    /\ det_status = <<>>

notClient == <<queueVars, nicVars, regVars, topoVars, simVars, runVars, pingVars, fidVars, esVars, xferVars, mainVars, detVars,
    gridVars,
    schedVars>>

\* Idle: a Client application on its own (client.rs)
ClientIdle ==
    /\ cl_pending = <<>>
    /\ cl_next_id = 0
    /\ cl_now = 0
    /\ cl_latency = <<>>
    /\ cl_done = <<>>
    /\ cl_status = "idle"

notGrid == <<queueVars, nicVars, regVars, topoVars, simVars, runVars, pingVars, fidVars, esVars, xferVars, mainVars, detVars, clientVars,
    schedVars>>

\* Idle: the construction of the grid physical topology (physical_topology.rs)
GridIdle ==
    /\ grid_params = <<>>
    /\ grid_edges = <<>>
    /\ grid_pc = "idle"
    /\ grid_ndx = 0

notSched == <<queueVars, nicVars, regVars, topoVars, simVars, runVars, pingVars, fidVars, esVars, xferVars, mainVars, detVars, clientVars, gridVars>>

\* Idle: the requests of one node toward one peer and its master Nic (node.rs)
SchedIdle ==
    /\ sq_requests = <<>>
    /\ sq_cells = <<>>
    /\ sq_next_request = 0
    /\ sq_next_pair = 0
    /\ sq_answered = {}
    /\ sq_requeued = {}

\* No fidelity is computed in the specification at hand.
FidIdle ==
    /\ fidelity_input = <<>>
    /\ fidelity_sample = 0

\* No Pinger runs in the specification at hand.
PingIdle ==
    /\ pinger = <<>>
    /\ pinger_responses = 0

\* No replication is set up or run in the specification at hand.
RunIdle ==
    /\ run_pc = "idle"
    /\ config = <<>>
    /\ network = <<>>
    /\ applications = <<>>
    /\ run_events = EmptyBag
    /\ run_clock = 0
    /\ num_events = 0
    /\ logical_topology_found = 0
    /\ single = <<>>
    /\ series = <<>>

NoRegCall == [op |-> "none", id |-> 0, node |-> 0]

\* EprRegister::default, before any call.
RegFresh ==
    /\ epr_pairs = <<>>
    /\ last_epr_pair_id = 0
    /\ reg_prev = <<>>
    /\ reg_call = NoRegCall
    /\ reg_ret = FALSE
    /\ issued = <<>>
    /\ origin = <<>>
    /\ consumed_by = <<>>
    /\ consumed_prev = <<>>

NoCall == [op |-> "none", now |-> 0, id |-> 0]

\* The Nic is not part of the specification at hand.
NicIdle ==
    /\ memory_cells = <<>>
    /\ nic_prev = <<>>
    /\ nic_call = NoCall
    /\ nic_ret = FALSE
    /\ nic_qubits = 0
    /\ used_true = <<>>

NoEvent == [time |-> 0, delay |-> 0, pushed_at |-> 0, kind |-> "none"]

\* ------------------------------------------------------------ event queue
\* Event::advance: `self.time += advance_time` on u64. The sum wraps in a
\* build without overflow checks; with overflow checks the addition panics.
advance(time, advance_time) == (time + advance_time) % TimeModulus

advance_overflows(time, advance_time) == time + advance_time >= TimeModulus

\* impl Ord for Event: the order of the times, reversed, so that the greatest
\* element of the max-heap is an event with the smallest time.
EventCmpGe(a, b) == b.time >= a.time

\* BinaryHeap::pop returns a greatest element; which one among co-timed
\* events is decided by the heap layout, any of them in the model.
HeapTop(q) == {i \in 1..Len(q) : \A j \in 1..Len(q) : EventCmpGe(q[i], q[j])}

RemoveAt(s, i) == SubSeq(s, 1, i - 1) \o SubSeq(s, i + 1, Len(s))

\* EventQueue::push: stamp the event with last_time + relative delay.
push(q, lt, delay, kind) ==
    Append(q, [time |-> advance(delay, lt), delay |-> delay,
               pushed_at |-> lt, kind |-> kind])

InitQueue ==
    /\ NicIdle
    /\ RegFresh
    /\ TopoIdle
    /\ SimIdle
    /\ queue = <<>>
    /\ last_time = 0
    /\ run_last_time = 0
    /\ handling = NoEvent
    /\ run_status = "running"
    /\ overflow_checks \in BOOLEAN
    /\ RunIdle
    /\ PingIdle
    /\ FidIdle
    /\ EsIdle
    /\ XferIdle
    /\ MainIdle
    /\ DetIdle
    /\ ClientIdle
    /\ GridIdle
    /\ SchedIdle

\* A handler (or the set-up of run) emits an event with a relative delay.
QPush ==
    /\ run_status = "running"
    /\ Len(queue) < MaxQueue
    /\ \E delay \in 0..MaxDelay :
          IF overflow_checks /\ advance_overflows(delay, last_time)
          THEN /\ run_status' = "panic_add_overflow"
               /\ UNCHANGED queue
          ELSE /\ queue' = push(queue, last_time, delay, "generic")
               /\ UNCHANGED run_status
    /\ UNCHANGED <<last_time, run_last_time, handling, overflow_checks>>
    /\ UNCHANGED notQueue

\* One turn of the main loop: EventQueue::pop, then the assertions of run.
QPop ==
    /\ run_status = "running"
    /\ queue # <<>>
    /\ \E i \in HeapTop(queue) :
          LET event == queue[i]
              now == event.time
          IN /\ queue' = RemoveAt(queue, i)
             /\ last_time' = now
             /\ handling' = event
             /\ IF now >= run_last_time
                THEN /\ run_last_time' = now
                     /\ UNCHANGED run_status
                ELSE /\ run_status' = "panic_back_in_time"
                     /\ UNCHANGED run_last_time
    /\ UNCHANGED overflow_checks
    /\ UNCHANGED notQueue

NextQueue == QPush \/ QPop

SpecQueue == InitQueue /\ [][NextQueue]_vars

\* C1: over any sequence of pushes (relative delay >= 0) and pops the time of
\* a popped event is never smaller than the time of the previously popped
\* event, so the assertion `now >= last_time` of the main loop never fails,
\* and an event pushed with delay 0 while the clock is t is popped at time t.
C1_MonotoneTime ==
    /\ run_status # "panic_back_in_time"
    /\ (handling.kind # "none" /\ handling.delay = 0
            => handling.time = handling.pushed_at)

\* -------------------------------------------------------------------- nic
\* MemoryCell: Empty, Valid(MemoryCellData) or Used(MemoryCellData).
Empty == [state |-> "Empty", created |-> 0, local_pair_id |-> 0]

\* MemoryCell::new: a valid memory cell.
MemoryCellNew(created, identifier) ==
    [state |-> "Valid", created |-> created, local_pair_id |-> identifier]

is_empty(cell) == cell.state = "Empty"
is_valid(cell) == cell.state = "Valid"
is_used(cell) == cell.state = "Used"

\* Option<T>: None, or Some(value).
None == [some |-> FALSE]
Some(v) == [some |-> TRUE, value |-> v]

\* MemoryCell::data
MemoryCellData(cell) ==
    IF is_empty(cell) THEN None
    ELSE Some([created |-> cell.created, local_pair_id |-> cell.local_pair_id])

\* MemoryCell::used: Valid becomes Used, anything else stays.
MemoryCellUsed(cell) ==
    IF is_valid(cell) THEN [cell EXCEPT !.state = "Used"] ELSE cell

\* impl PartialOrd for MemoryCell: Empty is below every non-empty cell and
\* two non-empty cells compare by `created` alone.
MemoryCellLess(a, b) ==
    IF is_empty(a) THEN ~is_empty(b)
    ELSE ~is_empty(b) /\ a.created < b.created

\* Nic::new
NicNew(num_qubits) == [i \in 1..num_qubits |-> Empty]

MinOf(S) == CHOOSE x \in S : \A y \in S : x <= y
MaxOf(S) == CHOOSE x \in S : \A y \in S : x >= y

\* Index of the first cell holding local_pair_id, 0 if no cell does: the
\* linear scan of Nic::consume and Nic::used.
FindCell(cells, local_pair_id) ==
    LET hits == {i \in 1..Len(cells) :
                    /\ ~is_empty(cells[i])
                    /\ cells[i].local_pair_id = local_pair_id}
    IN IF hits = {} THEN 0 ELSE MinOf(hits)

\* Variant of oldest_valid that returns the newest Valid cell.
oldest_valid_newest(cells) ==
    LET valid == {i \in 1..Len(cells) : is_valid(cells[i])}
        most == {i \in valid : \A j \in valid : ~MemoryCellLess(cells[i], cells[j])}
    IN IF valid = {} THEN 0 ELSE MinOf(most)

\* Variant of oldest_valid that filters on non-empty instead of Valid cells.
oldest_valid_nonempty(cells) ==
    LET valid == {i \in 1..Len(cells) : ~is_empty(cells[i])}
        least == {i \in valid : \A j \in valid : ~MemoryCellLess(cells[j], cells[i])}
    IN IF valid = {} THEN 0 ELSE MinOf(least)

\* Nic::oldest_valid: Iterator::min_by keeps the first of equal minima.
oldest_valid(cells) ==
    LET valid == {i \in 1..Len(cells) : is_valid(cells[i])}
        least == {i \in valid : \A j \in valid : ~MemoryCellLess(cells[j], cells[i])}
    IN IF valid = {} THEN 0 ELSE MinOf(least)

\* Nic::newest_valid: Iterator::max keeps the last of equal maxima; the
\* result is the local pair id of that cell.
newest_valid(cells) ==
    LET valid == {i \in 1..Len(cells) : is_valid(cells[i])}
        most == {i \in valid : \A j \in valid : ~MemoryCellLess(cells[i], cells[j])}
    IN IF valid = {} THEN None ELSE Some(cells[MaxOf(most)].local_pair_id)

\* Nic::add_epr_pair: the cells after the call and the returned flag.
add_epr_pair(cells, now, epr_pair_id) ==
    LET empties == {i \in 1..Len(cells) : is_empty(cells[i])}
        first_empty == IF empties = {} THEN 0 ELSE MinOf(empties)
        oldest == oldest_valid(cells)
    IN IF first_empty # 0
       THEN [cells |-> [cells EXCEPT ![first_empty] = MemoryCellNew(now, epr_pair_id)],
             ret |-> TRUE]
       ELSE IF oldest # 0
       THEN [cells |-> [cells EXCEPT ![oldest] = MemoryCellNew(now, epr_pair_id)],
             ret |-> TRUE]
       ELSE [cells |-> cells, ret |-> FALSE]

\* Variant of consume that removes the cell from the vector.
consume_remove(cells, local_pair_id) ==
    LET i == FindCell(cells, local_pair_id)
    IN IF i = 0 THEN [cells |-> cells, ret |-> None]
       ELSE [cells |-> RemoveAt(cells, i), ret |-> MemoryCellData(cells[i])]

\* Variant of consume that passes over Used cells.
consume_valid_only(cells, local_pair_id) ==
    LET i == FindCell(cells, local_pair_id)
    IN IF i = 0 \/ is_used(cells[i]) THEN [cells |-> cells, ret |-> None]
       ELSE [cells |-> [cells EXCEPT ![i] = Empty], ret |-> MemoryCellData(cells[i])]

\* Nic::consume: take the data of the first cell holding the id.
consume(cells, local_pair_id) ==
    LET i == FindCell(cells, local_pair_id)
    IN IF i = 0 THEN [cells |-> cells, ret |-> None]
       ELSE [cells |-> [cells EXCEPT ![i] = Empty], ret |-> MemoryCellData(cells[i])]

\* Variant of used that reports every cell holding the id as locked now.
used_any(cells, local_pair_id) ==
    LET i == FindCell(cells, local_pair_id)
    IN IF i # 0
       THEN [cells |-> [cells EXCEPT ![i] = MemoryCellUsed(cells[i])], ret |-> TRUE]
       ELSE [cells |-> cells, ret |-> FALSE]

\* Variant of used that reports the cell as locked and leaves it Valid.
used_unlocked(cells, local_pair_id) ==
    [cells |-> cells, ret |-> FindCell(cells, local_pair_id) # 0]

\* Nic::used: lock the first cell holding the id if that cell is Valid.
used(cells, local_pair_id) ==
    LET i == FindCell(cells, local_pair_id)
    IN IF i # 0 /\ is_valid(cells[i])
       THEN [cells |-> [cells EXCEPT ![i] = MemoryCellUsed(cells[i])], ret |-> TRUE]
       ELSE [cells |-> cells, ret |-> FALSE]

\* Pair identifiers offered to the Nic of SpecNic.
PairIds == 0..NicSize

\* Network::new makes the Nic of a logical edge with the edge's memory_qubits
\* cells (at least 1 on an edge of the greedy construction).
InitNic ==
    /\ nic_qubits \in 1..NicSize
    /\ memory_cells = NicNew(nic_qubits)
    /\ nic_prev = memory_cells
    /\ nic_call = NoCall
    /\ nic_ret = FALSE
    /\ used_true = [id \in PairIds |-> 0]
    /\ queue = <<>>
    /\ last_time = 0
    /\ run_last_time = 0
    /\ handling = NoEvent
    /\ run_status = "running"
    /\ overflow_checks = FALSE
    /\ RegFresh
    /\ TopoIdle
    /\ SimIdle
    /\ RunIdle
    /\ PingIdle
    /\ FidIdle
    /\ EsIdle
    /\ XferIdle
    /\ MainIdle
    /\ DetIdle
    /\ ClientIdle
    /\ GridIdle
    /\ SchedIdle

\* A pair identifier comes from the register and is stored once per Nic, so
\* a call of add_epr_pair never names an identifier the Nic holds.
NicAdd ==
    /\ \E now \in 0..MaxNow, id \in PairIds :
          /\ FindCell(memory_cells, id) = 0
          /\ LET r == add_epr_pair(memory_cells, now, id)
             IN /\ memory_cells' = r.cells
                /\ nic_ret' = r.ret
          /\ nic_call' = [op |-> "add_epr_pair", now |-> now, id |-> id]
          /\ used_true' = [used_true EXCEPT ![id] = 0]
    /\ nic_prev' = memory_cells
    /\ UNCHANGED nic_qubits
    /\ UNCHANGED notNic

NicUsed ==
    /\ \E id \in PairIds :
          /\ LET r == used(memory_cells, id)
             IN /\ memory_cells' = r.cells
                /\ nic_ret' = r.ret
                /\ used_true' = IF r.ret /\ used_true[id] < 2
                                THEN [used_true EXCEPT ![id] = @ + 1]
                                ELSE used_true
          /\ nic_call' = [op |-> "used", now |-> 0, id |-> id]
    /\ nic_prev' = memory_cells
    /\ UNCHANGED nic_qubits
    /\ UNCHANGED notNic

NicConsume ==
    /\ \E id \in PairIds :
          /\ LET r == consume(memory_cells, id)
             IN /\ memory_cells' = r.cells
                /\ nic_ret' = r.ret
          /\ nic_call' = [op |-> "consume", now |-> 0, id |-> id]
    /\ nic_prev' = memory_cells
    /\ UNCHANGED <<nic_qubits, used_true>>
    /\ UNCHANGED notNic

NextNic == NicAdd \/ NicUsed \/ NicConsume

SpecNic == InitNic /\ [][NextNic]_vars

Cells == 1..Len(nic_prev)
EmptyBefore == {i \in Cells : nic_prev[i].state = "Empty"}
ValidBefore == {i \in Cells : nic_prev[i].state = "Valid"}
UsedBefore == {i \in Cells : nic_prev[i].state = "Used"}
Changed == {i \in Cells : memory_cells[i] # nic_prev[i]}
Admitted == [state |-> "Valid", created |-> nic_call.now, local_pair_id |-> nic_call.id]
Holding(cells, id) ==
    {i \in 1..Len(cells) : cells[i].state # "Empty" /\ cells[i].local_pair_id = id}

\* C2: add_epr_pair(now, id) writes Valid(now, id) into the lowest-index Empty
\* cell if there is one; otherwise over a Valid cell with the smallest created
\* time; otherwise (all cells Used) it changes nothing and returns false. It
\* returns true exactly when it wrote and changes at most one cell.
C2_AddEprPair ==
    nic_call.op = "add_epr_pair" =>
        /\ Len(memory_cells) = Len(nic_prev)
        /\ Cardinality(Changed) <= 1
        /\ nic_ret = (Changed # {})
        /\ IF EmptyBefore # {}
           THEN /\ Changed = {MinOf(EmptyBefore)}
                /\ memory_cells[MinOf(EmptyBefore)] = Admitted
           ELSE IF ValidBefore # {}
           THEN \E i \in ValidBefore :
                    /\ Changed = {i}
                    /\ memory_cells[i] = Admitted
                    /\ \A j \in ValidBefore : nic_prev[i].created <= nic_prev[j].created
           ELSE Changed = {}

\* add_epr_pair found no Empty cell and evicted the older of two Valid cells
\* of different age.
C2_Witness ==
    /\ nic_call.op = "add_epr_pair"
    /\ EmptyBefore = {}
    /\ nic_ret = TRUE
    /\ \E i, j \in ValidBefore : nic_prev[i].created < nic_prev[j].created

\* C3: a cell locked by used(id) stays Used with the same pair id and created
\* time under every call except consume(id); add_epr_pair never changes it,
\* and when every cell is Used add_epr_pair returns false.
C3_UsedCellsKept ==
    /\ \A i \in UsedBefore :
          memory_cells[i] # nic_prev[i] =>
              nic_call.op = "consume" /\ nic_call.id = nic_prev[i].local_pair_id
    /\ (nic_call.op = "add_epr_pair" /\ UsedBefore = Cells) => nic_ret = FALSE

\* add_epr_pair was refused by a Nic of at least two cells, all of them Used.
C3_Witness ==
    /\ nic_call.op = "add_epr_pair"
    /\ Len(nic_prev) >= 2
    /\ UsedBefore = Cells
    /\ nic_ret = FALSE
    /\ memory_cells = nic_prev

\* C4: after any sequence of add_epr_pair, used and consume the Nic has as
\* many cells as the memory_qubits of the logical edge it was created for and
\* every cell is Empty, Valid or Used.
C4_NicConservation ==
    /\ Len(memory_cells) = nic_qubits
    /\ \A i \in 1..Len(memory_cells) :
          memory_cells[i].state \in {"Empty", "Valid", "Used"}
    /\ Cardinality({i \in 1..Len(memory_cells) : memory_cells[i].state = "Empty"})
       + Cardinality({i \in 1..Len(memory_cells) : memory_cells[i].state = "Valid"})
       + Cardinality({i \in 1..Len(memory_cells) : memory_cells[i].state = "Used"})
       = nic_qubits

\* consume emptied one cell of a Nic while another cell stays Used.
C4_Witness ==
    /\ nic_call.op = "consume"
    /\ nic_ret # None
    /\ nic_qubits >= 2
    /\ \E i, j \in 1..Len(memory_cells) :
          memory_cells[i].state = "Used" /\ memory_cells[j].state = "Empty"

\* C5: consume(id) on a Nic holding id in a Valid or Used cell returns that
\* cell's (created, id) and leaves the cell Empty; a consume of an id held by
\* no cell (such as an immediately repeated consume) returns None and leaves
\* the Nic unchanged.
C5_Consume ==
    nic_call.op = "consume" =>
        /\ Holding(memory_cells, nic_call.id) = {}
        /\ IF Holding(nic_prev, nic_call.id) # {}
           THEN \E i \in Holding(nic_prev, nic_call.id) :
                    /\ nic_ret = Some([created |-> nic_prev[i].created,
                                       local_pair_id |-> nic_call.id])
                    /\ memory_cells = [nic_prev EXCEPT ![i] = Empty]
           ELSE /\ nic_ret = None
                /\ memory_cells = nic_prev

\* consume(id) emptied a Used cell and returned its data.
C5_Witness ==
    /\ nic_call.op = "consume"
    /\ nic_ret # None
    /\ \E i \in UsedBefore :
          nic_prev[i].local_pair_id = nic_call.id /\ memory_cells[i].state = "Empty"

\* C6: used(id) returns true and turns the cell Valid -> Used exactly when a
\* Valid cell holds id; when the cell holding id is Used, or no cell holds id,
\* it returns false and the Nic is unchanged. Hence used(id) returns true at
\* most once between an admission of id and its consumption.
C6_Used ==
    /\ nic_call.op = "used" =>
          IF \E i \in ValidBefore : nic_prev[i].local_pair_id = nic_call.id
          THEN /\ nic_ret = TRUE
               /\ \E i \in ValidBefore :
                     /\ nic_prev[i].local_pair_id = nic_call.id
                     /\ memory_cells = [nic_prev EXCEPT ![i].state = "Used"]
          ELSE /\ nic_ret = FALSE
               /\ memory_cells = nic_prev
    /\ \A id \in DOMAIN used_true : used_true[id] <= 1

\* used(id) was called on a cell it had locked before and returned false.
C6_Witness ==
    /\ nic_call.op = "used"
    /\ nic_ret = FALSE
    /\ used_true[nic_call.id] = 1
    /\ \E i \in UsedBefore : nic_prev[i].local_pair_id = nic_call.id

\* ----------------------------------------------------------- epr register
\* Stand-in for u32::MAX: the first identifier that no node has.
U32Max == NumNodes

NodeIds == 0..(NumNodes - 1)

\* Option<u32>::unwrap_or(u32::MAX)
unwrap_or_max(opt) == IF opt.some THEN opt.value ELSE U32Max

\* EprPair::consume: the pair after the call and the returned value, which is
\* None or Some((updated, fidelity, fully consumed)).
EprPairConsume(pair, node_id) ==
    LET alice_id == unwrap_or_max(pair.alice_id)
        bob_id == unwrap_or_max(pair.bob_id)
        after == IF node_id = alice_id THEN [pair EXCEPT !.alice_id = None]
                 ELSE IF node_id = bob_id THEN [pair EXCEPT !.bob_id = None]
                 ELSE pair
    IN IF node_id # alice_id /\ node_id # bob_id
       THEN [pair |-> pair, ret |-> None]
       ELSE [pair |-> after,
             ret |-> Some(<<after.updated, after.fidelity,
                            ~after.alice_id.some /\ ~after.bob_id.some>>)]

\* HashMap::insert and HashMap::remove on a map kept as a function.
MapInsert(map, key, value) ==
    [k \in DOMAIN map \cup {key} |-> IF k = key THEN value ELSE map[k]]

MapRemove(map, key) == [k \in DOMAIN map \ {key} |-> map[k]]

\* Variant of new_epr_pair that numbers a pair by the size of the map.
new_epr_pair_by_len(pairs, last_id, alice_id, bob_id, updated, fidelity) ==
    LET epr_pair_id == Cardinality(DOMAIN pairs)
    IN [pairs |-> MapInsert(pairs, epr_pair_id,
                            [alice_id |-> Some(alice_id), bob_id |-> Some(bob_id),
                             updated |-> updated, fidelity |-> fidelity]),
        last_id |-> last_id + 1,
        ret |-> epr_pair_id,
        panic |-> epr_pair_id \in DOMAIN pairs]

\* EprRegister::new_epr_pair: the map and the counter after the call, the
\* returned identifier, and whether the assertion on a duplicate id fails.
new_epr_pair(pairs, last_id, alice_id, bob_id, updated, fidelity) ==
    LET epr_pair_id == last_id
    IN [pairs |-> MapInsert(pairs, epr_pair_id,
                            [alice_id |-> Some(alice_id), bob_id |-> Some(bob_id),
                             updated |-> updated, fidelity |-> fidelity]),
        last_id |-> last_id + 1,
        ret |-> epr_pair_id,
        panic |-> epr_pair_id \in DOMAIN pairs]

\* Variant of register_consume that drops the pair at the first consumption.
register_consume_drop(pairs, epr_pair_id, node_id) ==
    IF epr_pair_id \notin DOMAIN pairs
    THEN [pairs |-> pairs, ret |-> None]
    ELSE LET r == EprPairConsume(pairs[epr_pair_id], node_id)
         IN IF r.ret.some
            THEN [pairs |-> MapRemove(pairs, epr_pair_id),
                  ret |-> Some(<<r.ret.value[1], r.ret.value[2]>>)]
            ELSE [pairs |-> pairs, ret |-> None]

\* EprRegister::consume: the map after the call and the returned value,
\* None or Some((updated, fidelity)).
register_consume(pairs, epr_pair_id, node_id) ==
    IF epr_pair_id \notin DOMAIN pairs
    THEN [pairs |-> pairs, ret |-> None]
    ELSE LET r == EprPairConsume(pairs[epr_pair_id], node_id)
         IN IF r.ret.some
            THEN [pairs |-> IF r.ret.value[3]
                            THEN MapRemove(pairs, epr_pair_id)
                            ELSE [pairs EXCEPT ![epr_pair_id] = r.pair],
                  ret |-> Some(<<r.ret.value[1], r.ret.value[2]>>)]
            ELSE [pairs |-> pairs, ret |-> None]

\* PhysicalTopology::fidelity is a table look-up on the edge; the model keeps
\* one value per pair of endpoints.
FidelityOf(alice_id, bob_id) == 10 + ((alice_id + 2 * bob_id) % 3)

InitReg ==
    /\ RegFresh
    /\ NicIdle
    /\ TopoIdle
    /\ SimIdle
    /\ queue = <<>>
    /\ last_time = 0
    /\ run_last_time = 0
    /\ handling = NoEvent
    /\ run_status = "running"
    /\ overflow_checks = FALSE
    /\ RunIdle
    /\ PingIdle
    /\ FidIdle
    /\ EsIdle
    /\ XferIdle
    /\ MainIdle
    /\ DetIdle
    /\ ClientIdle
    /\ GridIdle
    /\ SchedIdle

\* Creation time of the pair registered last.
LastUpdated == IF issued = <<>> THEN 0 ELSE origin[issued[Len(issued)]].updated

\* The two endpoints of a pair are the master and the slave of a logical
\* edge, which are distinct nodes; pairs are registered at the current
\* simulated time, which does not decrease from one pair to the next.
RegNewEprPair ==
    /\ run_status = "running"
    /\ last_epr_pair_id < MaxPairs
    /\ \E alice_id \in NodeIds, updated \in LastUpdated..MaxUpdated :
       \E bob_id \in NodeIds \ {alice_id} :
          LET r == new_epr_pair(epr_pairs, last_epr_pair_id, alice_id, bob_id,
                                updated, FidelityOf(alice_id, bob_id))
          IN IF r.panic
             THEN /\ run_status' = "panic_duplicate_pair_id"
                  /\ UNCHANGED regVars
             ELSE /\ epr_pairs' = r.pairs
                  /\ last_epr_pair_id' = r.last_id
                  /\ reg_ret' = r.ret
                  /\ reg_call' = [op |-> "new_epr_pair", id |-> r.ret, node |-> alice_id]
                  /\ issued' = Append(issued, r.ret)
                  /\ origin' = MapInsert(origin, r.ret,
                                  [alice_id |-> alice_id, bob_id |-> bob_id,
                                   updated |-> updated,
                                   fidelity |-> FidelityOf(alice_id, bob_id)])
                  /\ consumed_by' = MapInsert(consumed_by, r.ret, {})
                  /\ reg_prev' = epr_pairs
                  /\ consumed_prev' = consumed_by
                  /\ UNCHANGED run_status
    /\ UNCHANGED <<queue, last_time, run_last_time, handling, overflow_checks>>
    /\ UNCHANGED <<nicVars, topoVars, simVars, runVars, pingVars, fidVars, esVars, xferVars, mainVars, detVars, clientVars, gridVars, schedVars>>

RegConsume ==
    /\ run_status = "running"
    /\ \E epr_pair_id \in 0..MaxPairs, node_id \in 0..U32Max :
          LET r == register_consume(epr_pairs, epr_pair_id, node_id)
          IN /\ epr_pairs' = r.pairs
             /\ reg_ret' = r.ret
             /\ reg_call' = [op |-> "consume", id |-> epr_pair_id, node |-> node_id]
             /\ consumed_by' =
                   IF /\ r.ret.some
                      /\ epr_pair_id \in DOMAIN origin
                      /\ node_id \in {origin[epr_pair_id].alice_id,
                                      origin[epr_pair_id].bob_id}
                   THEN [consumed_by EXCEPT ![epr_pair_id] = @ \cup {node_id}]
                   ELSE consumed_by
    /\ reg_prev' = epr_pairs
    /\ consumed_prev' = consumed_by
    /\ UNCHANGED <<last_epr_pair_id, issued, origin>>
    /\ UNCHANGED notReg

NextReg == RegNewEprPair \/ RegConsume

SpecReg == InitReg /\ [][NextReg]_vars

Endpoints(id) == {origin[id].alice_id, origin[id].bob_id}

\* C7: new_epr_pair returns 0 on a fresh register and each later call the
\* previous identifier + 1; no identifier is returned twice, also after the
\* pair it named has been consumed and removed.
C7_FreshPairIds ==
    /\ \A i \in 1..Len(issued) : issued[i] = i - 1
    /\ run_status # "panic_duplicate_pair_id"

\* new_epr_pair returned an identifier after an earlier pair had been
\* consumed by both endpoints and removed.
C7_Witness ==
    /\ reg_call.op = "new_epr_pair"
    /\ Len(issued) >= 2
    /\ \E id \in DOMAIN origin : id \notin DOMAIN epr_pairs

\* C8: consume(pair_id, node_id) returns Some((updated, fidelity)) with the
\* values given at creation once for each of the two endpoints; the pair
\* stays in the register after the first endpoint consumed it and is removed
\* exactly when both have; consume on an unknown or removed pair_id returns
\* None and changes nothing.
C8_RegisterConsume ==
    /\ \A id \in DOMAIN origin :
          id \in DOMAIN epr_pairs <=> consumed_by[id] # Endpoints(id)
    /\ reg_call.op = "consume" =>
          IF reg_call.id \notin DOMAIN reg_prev
          THEN reg_ret = None /\ epr_pairs = reg_prev
          ELSE reg_call.node \in Endpoints(reg_call.id) =>
                  IF reg_call.node \in consumed_prev[reg_call.id]
                  THEN reg_ret = None /\ epr_pairs = reg_prev
                  ELSE reg_ret = Some(<<origin[reg_call.id].updated,
                                        origin[reg_call.id].fidelity>>)

\* The first endpoint consumed its half and the pair is still registered.
C8_Witness ==
    /\ reg_call.op = "consume"
    /\ reg_ret # None
    /\ reg_call.id \in DOMAIN epr_pairs
    /\ consumed_by[reg_call.id] = {reg_call.node}
    /\ reg_call.node \in Endpoints(reg_call.id)

\* --------------------------------------------------------- logical topology
\* The physical topologies of the model: three nodes, node 0 a satellite
\* linked to nodes 1 and 2, which are satellites or ground stations and may
\* be linked to each other; as in from_grid_static all satellites share one
\* weight and all ground stations share one weight.
TopoNodes == 0..2

PhysicalShapes ==
    {[node_type |-> <<"SAT", "OGS", "OGS">>, edges |-> {{0, 1}, {0, 2}}]}
    \cup {[node_type |-> <<"SAT", "SAT", "OGS">>, edges |-> {{0, 1}, {0, 2}} \cup extra] :
            extra \in {{}, {{1, 2}}}}

\* NodeWeight::valid: memory_qubits > 0 exactly when detectors > 0.
NodeWeightValid(w) == (w.memory_qubits = 0) <=> (w.detectors = 0)

\* The capacities of a node: none, or one that every number of served edges
\* divides, so that the f64 division of the capacity is exact.
Capacities == {0, 6}

NodeWeights ==
    {w \in [memory_qubits : 0..MaxMemory, detectors : 0..MaxDetectors,
            transmitters : 0..MaxTransmitters, capacity : Capacities] :
        NodeWeightValid(w)}

\* Node n of the physical topology; nodes are numbered from 0.
TypeOf(n) == physical.node_type[n + 1]

\* PhysicalTopology::ogs_indices
ogs_indices == {n \in TopoNodes : TypeOf(n) = "OGS"}

\* Graph::neighbors on the undirected physical graph.
neighbors(u) == {v \in TopoNodes : {u, v} \in physical.edges}

\* find_possible_logical_edges: for every node with a transmitter, both
\* directions of every pair of distinct receivers among its neighbours with a
\* detector and itself if it has a detector.
find_possible_logical_edges ==
    LET rx_candidates(u) ==
            {v \in neighbors(u) : physical.weight[v].detectors > 0}
            \cup (IF physical.weight[u].detectors > 0 THEN {u} ELSE {})
    IN {[tx |-> u, master |-> a, slave |-> b] :
            u \in {n \in TopoNodes : physical.weight[n].transmitters > 0},
            a \in TopoNodes, b \in TopoNodes}
       \cap {e \in [tx : TopoNodes, master : TopoNodes, slave : TopoNodes] :
                /\ e.master \in rx_candidates(e.tx)
                /\ e.slave \in rx_candidates(e.tx)
                /\ e.master # e.slave}

\* Graph::find_edge on the logical graph.
find_edge(graph, u, v) == {e \in graph : e.master = u /\ e.slave = v}

\* Nodes reached from the set `from` in at most `steps` hops of the graph.
RECURSIVE ReachedFrom(_, _, _)
ReachedFrom(graph, from, steps) ==
    IF steps = 0 THEN from
    ELSE ReachedFrom(graph,
                     from \cup {e.slave : e \in {f \in graph : f.master \in from}},
                     steps - 1)

\* Variant of reachable that looks from the first node only.
reachable_from_first(graph, nodes) ==
    \A u \in {n \in nodes : \A m \in nodes : n <= m} : \A v \in nodes \ {u} :
        v \in ReachedFrom(graph, {u}, Cardinality(TopoNodes))

\* reachable: every node of `nodes` has a directed path to every other one
\* (its Bellman-Ford predecessor from the source is defined).
reachable(graph, nodes) ==
    \A u \in nodes : \A v \in nodes \ {u} :
        v \in ReachedFrom(graph, {u}, Cardinality(TopoNodes))

\* Variant of Admissible that looks at the master's resources only.
Admissible_master_only(graph, res, e) ==
    /\ find_edge(graph, e.master, e.slave) = {}
    /\ res[e.master].memory_qubits # 0
    /\ res[e.master].detectors # 0
    /\ res[e.tx].transmitters # 0

\* The conditions under which the admission loop does not skip a candidate.
Admissible(graph, res, e) ==
    /\ find_edge(graph, e.master, e.slave) = {}
    /\ ~(res[e.master].memory_qubits = 0 \/ res[e.slave].memory_qubits = 0)
    /\ ~(res[e.master].detectors = 0 \/ res[e.slave].detectors = 0)
    /\ res[e.tx].transmitters # 0

\* u32 subtraction `x -= 1`: below 0 it panics or wraps with the build; the
\* model keeps the mathematical value so that an underflow shows as < 0.
Decrement(res, n, field) == [res EXCEPT ![n][field] = @ - 1]

\* Reserve one memory qubit and one detector on master and slave and one
\* transmitter on tx.
Reserve(res, e) ==
    Decrement(Decrement(Decrement(Decrement(Decrement(res,
        e.master, "memory_qubits"), e.slave, "memory_qubits"),
        e.master, "detectors"), e.slave, "detectors"),
        e.tx, "transmitters")

NewLogicalEdge(e) ==
    [master |-> e.master, slave |-> e.slave, tx |-> e.tx, memory_qubits |-> 1,
     capacity |-> 0]

\* The construction starts on a validated physical topology.
TopoStart ==
    /\ \E shape \in PhysicalShapes, sat_weight \in NodeWeights, ogs_weight \in NodeWeights :
          physical = [node_type |-> shape.node_type,
                      edges |-> shape.edges,
                      weight |-> [n \in TopoNodes |->
                                     IF shape.node_type[n + 1] = "SAT"
                                     THEN sat_weight ELSE ogs_weight]]
    /\ residual = physical.weight
    /\ logical_graph = {}
    /\ possible_logical_edges = find_possible_logical_edges
    /\ candidate_edges = <<>>
    /\ candidate_edges_new = <<>>
    /\ topo_pc = "admit"
    /\ SimIdle
    /\ RegFresh
    /\ NicIdle
    /\ queue = <<>>
    /\ last_time = 0
    /\ run_last_time = 0
    /\ handling = NoEvent
    /\ run_status = "running"
    /\ overflow_checks = FALSE

InitTopo == TopoStart /\ RunIdle /\ PingIdle /\ FidIdle /\ EsIdle /\ XferIdle /\ MainIdle /\ DetIdle /\ ClientIdle /\ GridIdle /\ SchedIdle

\* The admission loop over the shuffled candidates, up to and including the
\* next candidate it admits. A candidate that is skipped stays skipped
\* wherever it comes in the list (an edge is never removed and the residual
\* counters only decrease), so the shuffle is the choice of the next
\* admitted candidate among the admissible ones.
GreedyAdmit ==
    /\ topo_pc = "admit"
    /\ \E e \in possible_logical_edges :
          /\ Admissible(logical_graph, residual, e)
          /\ residual' = Reserve(residual, e)
          /\ logical_graph' = logical_graph \cup {NewLogicalEdge(e)}
          /\ possible_logical_edges' = possible_logical_edges \ {e}
          /\ topo_pc' = IF reachable(logical_graph', ogs_indices)
                        THEN "shuffle" ELSE "admit"
    /\ UNCHANGED <<physical, candidate_edges, candidate_edges_new>>
    /\ UNCHANGED notTopo

\* The candidates are exhausted: the rest of the list is skipped and the
\* construction fails unless the ground stations reach one another.
GreedyExhausted ==
    /\ topo_pc = "admit"
    /\ \A e \in possible_logical_edges : ~Admissible(logical_graph, residual, e)
    /\ possible_logical_edges' = {}
    /\ topo_pc' = IF reachable(logical_graph, ogs_indices) THEN "shuffle" ELSE "err"
    /\ UNCHANGED <<physical, residual, logical_graph, candidate_edges,
                   candidate_edges_new>>
    /\ UNCHANGED notTopo

Shuffles(S) ==
    {p \in [1..Cardinality(S) -> S] : \A i, j \in 1..Cardinality(S) : i # j => p[i] # p[j]}

\* candidate_edges: the admitted edges (source, target), shuffled.
ShuffleCandidates ==
    /\ topo_pc = "shuffle"
    /\ candidate_edges' \in Shuffles({<<e.master, e.slave>> : e \in logical_graph})
    /\ candidate_edges_new' = <<>>
    /\ topo_pc' = IF logical_graph = {} THEN "capacity" ELSE "distribute"
    /\ UNCHANGED <<physical, residual, logical_graph, possible_logical_edges>>
    /\ UNCHANGED notTopo

\* One turn of the inner loop: pop the last candidate and give its edge one
\* more memory qubit if both end-points have one left.
DistributeStep ==
    /\ topo_pc = "distribute"
    /\ candidate_edges # <<>>
    /\ LET uv == candidate_edges[Len(candidate_edges)]
           u == uv[1]
           v == uv[2]
       IN /\ candidate_edges' = SubSeq(candidate_edges, 1, Len(candidate_edges) - 1)
          /\ IF residual[u].memory_qubits > 0 /\ residual[v].memory_qubits > 0
             THEN /\ logical_graph' =
                        {IF e.master = u /\ e.slave = v
                         THEN [e EXCEPT !.memory_qubits = @ + 1] ELSE e :
                         e \in logical_graph}
                  /\ residual' = Decrement(Decrement(residual, u, "memory_qubits"),
                                           v, "memory_qubits")
                  /\ candidate_edges_new' = Append(candidate_edges_new, uv)
             ELSE UNCHANGED <<logical_graph, residual, candidate_edges_new>>
    /\ UNCHANGED <<physical, possible_logical_edges, topo_pc>>
    /\ UNCHANGED notTopo

\* Variant of the outer loop that makes a single pass.
single_pass(candidates) == FALSE

\* `while !candidate_edges.is_empty()`: another pass is made when the pass
\* that ended gave a qubit to at least one edge.
another_pass(candidates) == candidates # <<>>

\* End of a pass: swap the two lists; the outer loop ends when the new list
\* of candidates is empty.
DistributeSwap ==
    /\ topo_pc = "distribute"
    /\ candidate_edges = <<>>
    /\ candidate_edges' = candidate_edges_new
    /\ candidate_edges_new' = <<>>
    /\ topo_pc' = IF another_pass(candidate_edges_new) THEN "distribute" ELSE "capacity"
    /\ UNCHANGED <<physical, residual, logical_graph, possible_logical_edges>>
    /\ UNCHANGED notTopo

\* Number of logical edges served by node u as the tx.
num_served(u) == Cardinality({e \in logical_graph : e.tx = u})

\* Divide the capacity of every tx node evenly between the edges it serves
\* and return the logical graph.
AssignCapacities ==
    /\ topo_pc = "capacity"
    /\ logical_graph' =
          {[e EXCEPT !.capacity = residual[e.tx].capacity \div num_served(e.tx)] :
              e \in logical_graph}
    /\ topo_pc' = "ok"
    /\ UNCHANGED <<physical, residual, possible_logical_edges, candidate_edges,
                   candidate_edges_new>>
    /\ UNCHANGED notTopo

NextTopo ==
    \/ GreedyAdmit
    \/ GreedyExhausted
    \/ ShuffleCandidates
    \/ DistributeStep
    \/ DistributeSwap
    \/ AssignCapacities

SpecTopo == InitTopo /\ [][NextTopo]_vars

RECURSIVE SumMemory(_)
SumMemory(edges) ==
    IF edges = {} THEN 0
    ELSE LET e == CHOOSE x \in edges : TRUE
         IN e.memory_qubits + SumMemory(edges \ {e})

Incident(u) == {e \in logical_graph : e.master = u \/ e.slave = u}

\* Cells of all the Nics Network::new gives node u: one master Nic per edge
\* leaving u and one slave Nic per edge entering u.
RECURSIVE SumCells(_)
SumCells(nics) ==
    IF nics = {} THEN 0
    ELSE LET n == CHOOSE x \in nics : TRUE
         IN Len(NicNew(n.num_qubits)) + SumCells(nics \ {n})

NicsOf(u) ==
    {[peer |-> e.slave, role |-> "Master", num_qubits |-> e.memory_qubits] :
        e \in {f \in logical_graph : f.master = u}}
    \cup {[peer |-> e.master, role |-> "Slave", num_qubits |-> e.memory_qubits] :
        e \in {f \in logical_graph : f.slave = u}}

\* C10: in every logical topology the random-greedy construction returns,
\* for every node u the memory_qubits of the edges incident to u sum to at
\* most memory_qubits(u), the edges incident to u number at most
\* detectors(u), the edges with tx = u at most transmitters(u), and so the
\* cells of all the Nics of u number at most memory_qubits(u).
C10_NoOverAllocation ==
    topo_pc = "ok" =>
        \A u \in TopoNodes :
            /\ SumMemory(Incident(u)) <= physical.weight[u].memory_qubits
            /\ Cardinality(Incident(u)) <= physical.weight[u].detectors
            /\ Cardinality({e \in logical_graph : e.tx = u})
                  <= physical.weight[u].transmitters
            /\ SumCells(NicsOf(u)) <= physical.weight[u].memory_qubits

\* A topology is returned in which a node has spent all its memory qubits on
\* two incident edges, one of which got a residual qubit.
C10_Witness ==
    /\ topo_pc = "ok"
    /\ \E u \in TopoNodes :
          /\ Cardinality(Incident(u)) >= 2
          /\ SumMemory(Incident(u)) = physical.weight[u].memory_qubits
          /\ \E e \in Incident(u) : e.memory_qubits >= 2

\* C11: every logical topology returned for a validated physical topology has,
\* on every edge, memory_qubits >= 1 and capacity > 0, and the edges served by
\* the transmitter node u share capacity(u) evenly (capacity(u) / k each).
C11_EdgeWeights ==
    topo_pc = "ok" =>
        \A e \in logical_graph :
            /\ e.memory_qubits >= 1
            /\ e.capacity > 0
            /\ e.capacity * num_served(e.tx) = physical.weight[e.tx].capacity


\* ------------------------------------------------------------------ setup
\* Simulation::new and the first part of Simulation::run: the network built
\* on the logical topology, the applications, the initial events.

\* Times of the configuration are f64 seconds; the clock counts nanoseconds.
\* A configured time is modelled as a whole number of quarters of a
\* nanosecond, so that to_nanoseconds has something to round.
\* round(num / den), halves away from zero, of a time of num / den nanoseconds.
round(num, den) == (2 * num + den) \div (2 * den)

\* utils::to_nanoseconds, of a time in quarters of a nanosecond.
to_nanoseconds(s) == round(s, 4)

\* utils::to_seconds, to a time in quarters of a nanosecond.
to_seconds(ns) == ns * 4

\* The metrics the network reports as series.
SeriesNames == {"occupancy", "epr-request-latency"}

\* source_dest_pairs of the configuration: AllToAll, or Random(n).
SourceDestPairs ==
    {[kind |-> "AllToAll", num |-> 0]}
    \cup {[kind |-> "Random", num |-> n] : n \in 0..MaxApplications}

\* The user configurations Simulation::new accepts (duration > 0).
Configs ==
    [source_dest_pairs : SourceDestPairs,
     duration : {RunDuration},
     warmup_period : {0, 1, 4 * NetStep, RunDuration, RunDuration + 4},
     series_ignore : {{}, {"occupancy"}}]

\* The configurations that differ in what the setup reads: source_dest_pairs.
SetupConfigs == {c \in Configs : c.warmup_period = 0 /\ c.series_ignore = {}}

RECURSIVE SumCapacity(_)
SumCapacity(edges) ==
    IF edges = {} THEN 0
    ELSE LET e == CHOOSE x \in edges : TRUE
         IN e.capacity + SumCapacity(edges \ {e})

\* logical_topology::is_valid
topology_is_valid(graph) ==
    /\ reachable(graph, ogs_indices)
    /\ \A e \in graph :
          /\ Cardinality(find_edge(graph, e.master, e.slave)) = 1
          /\ e.capacity > 0
          /\ e.memory_qubits > 0
    /\ \A u \in TopoNodes :
          LET w == physical.weight[u]
              served == {e \in graph : e.tx = u}
              incident == {e \in graph : e.master = u \/ e.slave = u}
          IN /\ w.capacity >= SumCapacity(served)
             /\ w.memory_qubits >= SumMemory(incident)
             /\ w.detectors >= Cardinality(incident)
             /\ w.transmitters >= Cardinality(served)

\* LogicalTopology::default(): a graph with no node and no edge.
LogicalTopologyDefault == [node_count |-> 0, graph |-> {}]

\* Simulation::create_network: the logical topology, or the default one when
\* the construction fails or its result is not valid.
create_network ==
    IF topo_pc = "ok" /\ topology_is_valid(logical_graph)
    THEN [node_count |-> Cardinality(TopoNodes), graph |-> logical_graph]
    ELSE LogicalTopologyDefault

\* Network::new: one Node per node of the logical graph, one EprGenerator per
\* logical edge.
NetworkNew(logical_topology) ==
    [nodes |-> 0..(logical_topology.node_count - 1),
     epr_generators |-> {[tx_node_id |-> e.tx, master_node_id |-> e.master,
                          slave_node_id |-> e.slave] : e \in logical_topology.graph}]

\* Simulation::new
SimulationNew ==
    /\ run_pc = "new"
    /\ topo_pc \in {"ok", "err"}
    /\ config' \in SetupConfigs
    /\ network' = NetworkNew(create_network)
    /\ single' = [enabled |-> FALSE, one_time |-> <<>>]
    /\ series' = [enabled |-> FALSE,
                  series |-> [name \in SeriesNames \ config'.series_ignore |-> {}]]
    /\ run_pc' = "create_applications"
    /\ UNCHANGED <<applications, run_events, run_clock, num_events,
                   logical_topology_found>>
    /\ UNCHANGED notRun

\* The sequences of n elements of S.
Tuples(S, n) == [1..n -> S]

\* source_destination_pairs: Random draws indices below the number of ground
\* stations and uses them as node identifiers; AllToAll pairs the ground
\* stations in the order of ogs_indices.
source_destination_pairs(conf, ogs) ==
    IF conf.kind = "Random"
    THEN LET ids == 0..(Cardinality(ogs) - 1)
         IN Tuples({pr \in ids \X ids : pr[1] # pr[2]}, conf.num)
    ELSE LET n == Cardinality(ogs)
             nth(i) == CHOOSE x \in ogs : Cardinality({y \in ogs : y < x}) = i
             pairs == {<<a, b>> \in (0..(n - 1)) \X (0..(n - 1)) : a # b}
             rank(pr) == Cardinality({q \in pairs :
                             q[1] < pr[1] \/ (q[1] = pr[1] /\ q[2] < pr[2])})
         IN {[i \in 1..Cardinality(pairs) |->
                 LET pr == CHOOSE q \in pairs : rank(q) = i - 1
                 IN <<nth(pr[1]), nth(pr[2])>>]}

\* create_applications: panics on fewer than two ground stations and on a
\* node identifier that Network::nodes does not hold.
CreateApplications ==
    /\ run_pc = "create_applications"
    /\ IF ogs_indices = {}
       THEN /\ run_pc' = "panic: no OGS nodes"
            /\ UNCHANGED applications
       ELSE IF Cardinality(ogs_indices) <= 1
       THEN /\ run_pc' = "panic: there's a single OGS node"
            /\ UNCHANGED applications
       ELSE \E pairs \in source_destination_pairs(config.source_dest_pairs, ogs_indices) :
               IF \E i \in DOMAIN pairs :
                     pairs[i][1] \notin network.nodes \/ pairs[i][2] \notin network.nodes
               THEN /\ run_pc' = "panic: index out of bounds"
                    /\ UNCHANGED applications
               ELSE /\ applications' = pairs
                    /\ run_pc' = "initial"
    /\ UNCHANGED <<config, network, run_events, run_clock, num_events,
                   logical_topology_found, single, series>>
    /\ UNCHANGED notRun

\* An event of the queue of Simulation::run.
RunEvent(time, type, data) == [time |-> time, type |-> type, data |-> data]

\* Simulated times at which a first network event may be scheduled.
FirstDelays == {0, NetStep}

\* The events Simulation::run pushes before the main loop: WarmupPeriodEnd,
\* ExperimentEnd, Progress(0), and Network::initial, i.e. one event per EPR
\* generator after the random time delays[g] and one per Pinger at time 0.
initial_events(conf, net, apps, delays) ==
    LET initial_network_events ==
            [t \in {0} \cup FirstDelays |->
                Cardinality({g \in net.epr_generators : delays[g] = t})
                + (IF t = 0 THEN Len(apps) ELSE 0)]
    IN SetToBag({RunEvent(to_nanoseconds(conf.warmup_period), "WarmupPeriodEnd", 0),
                 RunEvent(to_nanoseconds(conf.duration), "ExperimentEnd", 0),
                 RunEvent(0, "Progress", 0)})
       (+) [e \in {RunEvent(t, "NetworkEvent", 0) :
                      t \in {u \in DOMAIN initial_network_events :
                                initial_network_events[u] > 0}}
               |-> initial_network_events[e.time]]

\* Simulation::run up to the main loop; logical_topology_found is 0 when
\* Network::initial returns no event.
RunInitial ==
    /\ run_pc = "initial"
    /\ \E delays \in [network.epr_generators -> FirstDelays] :
          run_events' = initial_events(config, network, applications, delays)
    /\ logical_topology_found' =
          IF Cardinality(network.epr_generators) + Len(applications) = 0 THEN 0 ELSE 1
    /\ run_pc' = "loop"
    /\ UNCHANGED <<config, network, applications, run_clock, num_events, single, series>>
    /\ UNCHANGED notRun

\* A replication from the configuration to the main loop.
InitSetup ==
    /\ TopoStart
    /\ run_pc = "new"
    /\ config = <<>>
    /\ network = <<>>
    /\ applications = <<>>
    /\ run_events = EmptyBag
    /\ run_clock = 0
    /\ num_events = 0
    /\ logical_topology_found = 0
    /\ single = <<>>
    /\ series = <<>>
    /\ PingIdle
    /\ FidIdle
    /\ EsIdle
    /\ XferIdle
    /\ MainIdle
    /\ DetIdle
    /\ ClientIdle
    /\ GridIdle
    /\ SchedIdle

NextSetup ==
    \/ NextTopo
    \/ SimulationNew
    \/ CreateApplications
    \/ RunInitial

SpecSetup == InitSetup /\ [][NextSetup]_vars

\* The directed walks of n edges from source, over master -> slave.
RECURSIVE Walks(_, _, _)
Walks(generators, source, n) ==
    IF n = 0 THEN {<<source>>}
    ELSE UNION {{Append(w, g.slave_node_id) :
                    g \in {x \in generators : x.master_node_id = w[n]}} :
                w \in Walks(generators, source, n - 1)}

\* LogicalTopology::path(source, target): the nodes of a shortest path, first
\* the source and last the target, read off the Bellman-Ford predecessors
\* with every edge of cost 1. Which of several shortest paths is returned
\* depends on the order of relaxation: the operator gives them all, and none
\* when the target has no predecessor.
LogicalTopologyPath(generators, source, target) ==
    LET ending(n) == {w \in Walks(generators, source, n) : w[n + 1] = target}
        lengths == {n \in 0..Cardinality(TopoNodes) : ending(n) # {}}
    IN IF lengths = {} THEN {} ELSE ending(MinOf(lengths))

\* C12: when the replication reports logical_topology_found = 1, every
\* ordered pair of distinct ground stations is joined by a directed path of
\* the network, and the path lookup returns, from the source to the target,
\* a path of at least two nodes.
C12_OgsPairsConnected ==
    (run_pc = "loop" /\ logical_topology_found = 1) =>
        \A s \in ogs_indices : \A t \in ogs_indices \ {s} :
            /\ LogicalTopologyPath(network.epr_generators, s, t) # {}
            /\ \A p \in LogicalTopologyPath(network.epr_generators, s, t) :
                  Len(p) >= 2 /\ p[1] = s /\ p[Len(p)] = t

\* A found topology in which two ground stations are joined through a
\* satellite only.
C12_Witness ==
    /\ run_pc = "loop"
    /\ logical_topology_found = 1
    /\ \E s \in ogs_indices : \E t \in ogs_indices \ {s} :
          \E p \in LogicalTopologyPath(network.epr_generators, s, t) : Len(p) = 3

\* C13: when no feasible logical topology exists (the construction fails or
\* its result is not valid), the replication does not crash: it reaches the
\* main loop with logical_topology_found = 0 and no network event.
C13_InfeasibleStillRuns ==
    (run_pc # "new" /\ create_network = LogicalTopologyDefault) =>
        /\ run_pc \in {"create_applications", "initial", "loop"}
        /\ run_pc = "loop" =>
              /\ logical_topology_found = 0
              /\ \A e \in BagToSet(run_events) : e.type # "NetworkEvent"

\* -------------------------------------------------------------- main loop
\* The main loop of Simulation::run and the metrics it saves. What the
\* network does with one of its events is left open: it may schedule a
\* further event and may report a sample of a series. The scalar averages
\* are not part of the state. Every metric is taken to have been initialised
\* (OutputSeries::set_headers) when the Simulation was created.

\* Variant of OutputSeries::add that stores whether enabled or not.
series_add_always(out, ignore, name, time) ==
    IF name \notin ignore
    THEN IF name \in DOMAIN out.series
         THEN [out |-> [out EXCEPT !.series[name] = Append(@, time)], panic |-> FALSE]
         ELSE [out |-> out, panic |-> TRUE]
    ELSE [out |-> out, panic |-> FALSE]

\* OutputSeries::add: stores (labels, time, value) when the collection is
\* enabled and the metric is not ignored; the timestamp is what is kept here.
\* It panics on a metric that was not initialised.
series_add(out, ignore, name, time) ==
    IF out.enabled /\ name \notin ignore
    THEN IF name \in DOMAIN out.series
         THEN [out |-> [out EXCEPT !.series[name] = Append(@, time)], panic |-> FALSE]
         ELSE [out |-> out, panic |-> TRUE]
    ELSE [out |-> out, panic |-> FALSE]

\* OutputScalar::one_time
one_time(out, name, value) ==
    IF out.enabled THEN [out EXCEPT !.one_time = MapInsert(@, name, value)] ELSE out

\* Wall-clock seconds a run may take.
Elapsed == {0, 1}

\* EventQueue::pop: an event of the smallest time.
RunPopped(e, type) ==
    /\ run_pc = "loop"
    /\ e \in BagToSet(run_events)
    /\ e.type = type
    /\ \A x \in BagToSet(run_events) : e.time <= x.time

\* The logical edges of the network of two ground stations (0 and 1) joined
\* both ways through the satellite 2.
SimEdges ==
    {[master |-> 0, slave |-> 1, tx |-> 2], [master |-> 1, slave |-> 0, tx |-> 2]}

\* The setups the main loop is explored from: a network of two ground
\* stations joined both ways through a satellite with one Pinger, and the
\* empty network of a replication without logical topology and applications.
RunSetups ==
    {[network |-> NetworkNew([node_count |-> 3, graph |-> SimEdges]),
      applications |-> <<<<0, 1>>>>,
      source_dest_pairs |-> [kind |-> "Random", num |-> 1]],
     [network |-> NetworkNew(LogicalTopologyDefault),
      applications |-> <<>>,
      source_dest_pairs |-> [kind |-> "Random", num |-> 0]]}

InitRun ==
    /\ \E setup \in RunSetups :
          /\ network = setup.network
          /\ applications = setup.applications
          /\ config \in {c \in Configs : c.source_dest_pairs = setup.source_dest_pairs}
          /\ \E delays \in [network.epr_generators -> FirstDelays] :
                run_events = initial_events(config, network, applications, delays)
          /\ logical_topology_found =
                IF Cardinality(network.epr_generators) + Len(applications) = 0
                THEN 0 ELSE 1
    /\ run_pc = "loop"
    /\ run_clock = 0
    /\ num_events = 0
    /\ single = [enabled |-> FALSE, one_time |-> <<>>]
    /\ series = [enabled |-> FALSE,
                 series |-> [name \in SeriesNames \ config.series_ignore |-> <<>>]]
    /\ TopoIdle
    /\ SimIdle
    /\ RegFresh
    /\ NicIdle
    /\ queue = <<>>
    /\ last_time = 0
    /\ run_last_time = 0
    /\ handling = NoEvent
    /\ run_status = "running"
    /\ overflow_checks = FALSE
    /\ PingIdle
    /\ FidIdle
    /\ EsIdle
    /\ XferIdle
    /\ MainIdle
    /\ DetIdle
    /\ ClientIdle
    /\ GridIdle
    /\ SchedIdle

\* WarmupPeriodEnd: the collection of metrics is enabled.
RunWarmupPeriodEnd ==
    \E e \in BagToSet(run_events) :
        /\ RunPopped(e, "WarmupPeriodEnd")
        /\ run_events' = run_events (-) SetToBag({e})
        /\ run_clock' = e.time
        /\ num_events' = num_events + 1
        /\ single' = [single EXCEPT !.enabled = TRUE]
        /\ series' = [series EXCEPT !.enabled = TRUE]
        /\ UNCHANGED <<run_pc, config, network, applications, logical_topology_found>>
        /\ UNCHANGED notRun

\* Progress(percentage): the next one is due a hundredth of the duration later.
RunProgress ==
    \E e \in BagToSet(run_events) :
        /\ RunPopped(e, "Progress")
        /\ run_events' =
              (run_events (-) SetToBag({e}))
              (+) SetToBag({RunEvent(e.time + round(config.duration, 4 * 100),
                                     "Progress", e.data + 1)})
        /\ run_clock' = e.time
        /\ num_events' = num_events + 1
        /\ UNCHANGED <<run_pc, config, network, applications, logical_topology_found,
                       single, series>>
        /\ UNCHANGED notRun

\* NodeEvent, OsEvent, AppEvent: Network::handle returns events and samples,
\* which Simulation::update pushes and saves with the time of the event.
RunNetworkEvent ==
    \E e \in BagToSet(run_events) :
        /\ RunPopped(e, "NetworkEvent")
        /\ \E new_events \in {EmptyBag,
                              SetToBag({RunEvent(e.time + NetStep, "NetworkEvent", 0)})},
              samples \in {<<>>} \cup {<<name>> : name \in SeriesNames} :
              LET saved == IF samples = <<>> THEN [out |-> series, panic |-> FALSE]
                           ELSE series_add(series, config.series_ignore, samples[1],
                                           to_seconds(e.time))
              IN /\ run_events' = (run_events (-) SetToBag({e})) (+) new_events
                 /\ series' = saved.out
                 /\ run_pc' = IF saved.panic THEN "panic: uninitialized metric"
                              ELSE run_pc
        /\ run_clock' = e.time
        /\ num_events' = num_events + 1
        /\ UNCHANGED <<config, network, applications, logical_topology_found, single>>
        /\ UNCHANGED notRun

\* ExperimentEnd: the loop ends, the final metrics are saved and run returns.
RunExperimentEnd ==
    \E e \in BagToSet(run_events) :
        /\ RunPopped(e, "ExperimentEnd")
        /\ run_events' = run_events (-) SetToBag({e})
        /\ run_clock' = e.time
        /\ num_events' = num_events + 1
        /\ \E execution_time \in Elapsed :
              single' = one_time(one_time(one_time(single,
                            "logical_topology_found", logical_topology_found),
                            "num_events", num_events'),
                            "execution_time", execution_time)
        /\ run_pc' = "returned"
        /\ UNCHANGED <<config, network, applications, logical_topology_found, series>>
        /\ UNCHANGED notRun

NextRun ==
    \/ RunWarmupPeriodEnd
    \/ RunProgress
    \/ RunNetworkEvent
    \/ RunExperimentEnd

SpecRun == InitRun /\ [][NextRun]_vars

\* The timestamps stored for the series.
Timestamps == UNION {{series.series[name][i] : i \in DOMAIN series.series[name]} :
                        name \in DOMAIN series.series}

\* C16, as stated: no series sample is recorded with a timestamp before
\* warmup_period; the samples reported before WarmupPeriodEnd are discarded;
\* a metric of series_ignore is never stored.
C16_NoSampleBeforeWarmup ==
    run_pc \in {"loop", "returned"} =>
        /\ \A time \in Timestamps : time >= config.warmup_period
        /\ ~series.enabled => Timestamps = {}
        /\ DOMAIN series.series \cap config.series_ignore = {}

\* C16, amended: no series sample is recorded with a timestamp before the
\* time of WarmupPeriodEnd, which is warmup_period rounded to the nearest
\* nanosecond; the samples reported before WarmupPeriodEnd are discarded; a
\* metric of series_ignore is never stored.
C16_NoSampleBeforeWarmupEnd ==
    run_pc \in {"loop", "returned"} =>
        /\ \A time \in Timestamps :
              time >= to_seconds(to_nanoseconds(config.warmup_period))
        /\ ~series.enabled => Timestamps = {}
        /\ DOMAIN series.series \cap config.series_ignore = {}

\* A sample is stored at the very time of a WarmupPeriodEnd later than 0,
\* in a run that ignores a metric.
C16_Witness ==
    /\ run_pc = "loop"
    /\ series.enabled
    /\ config.warmup_period = 4 * NetStep
    /\ config.series_ignore # {}
    /\ to_seconds(to_nanoseconds(config.warmup_period)) \in Timestamps

\* C17: when run returns, the output holds the one-time scalars
\* logical_topology_found (0 or 1), num_events and execution_time, whatever
\* the duration > 0 and the warmup period >= 0, also when the warmup period
\* is the duration or longer.
C17_FinalScalars ==
    run_pc = "returned" =>
        /\ {"logical_topology_found", "num_events", "execution_time"}
              \subseteq DOMAIN single.one_time
        /\ single.one_time["logical_topology_found"] \in {0, 1}

\* ------------------------------------------------------------- simulation
\* A run of Simulation::run on a network of two ground stations and one
\* satellite: the satellite is the tx of the two logical edges between the
\* ground stations, a Client runs on one ground station and its Server on
\* the other. Every request is single hop.

\* (this_node_id, peer_node_id) of the one Client/Server pair.
source_dest_pair == [this_node_id |-> 0, peer_node_id |-> 1]

\* Delay of a transfer between two nodes.
Delays == 0..MaxStep

\* An event scheduled after a random time has a sample of an exponential
\* distribution as its delay: a time up to MaxStep, or one that falls after
\* ExperimentEnd.
RandomDelays == Delays \cup {Duration + 1}

Event(delay, type, data) == [delay |-> delay, type |-> type, data |-> data]

\* Status of a pending request of a node.
Queued == [state |-> "Queued"]
WaitingForResponse(memory_cell) ==
    [state |-> "WaitingForResponse", memory_cell |-> memory_cell]

MemoryCellId(neighbor_node_id, role, local_pair_id) ==
    [neighbor_node_id |-> neighbor_node_id, role |-> role,
     local_pair_id |-> local_pair_id]

EprFiveTuple(source_node_id, target_node_id, request_id) ==
    [source_node_id |-> source_node_id, target_node_id |-> target_node_id,
     request_id |-> request_id]

\* LogicalTopology::path on the network above: the two ground stations are
\* joined by an edge in each direction.
path(source_node_id, target_node_id) == <<source_node_id, target_node_id>>

\* Network::new: one master Nic and one slave Nic per logical edge.
NicsOfRole(node_id, role, qubits) ==
    LET mine == {e \in SimEdges :
                    IF role = "Master" THEN e.master = node_id ELSE e.slave = node_id}
        peer_of(e) == IF role = "Master" THEN e.slave ELSE e.master
    IN [p \in {peer_of(e) : e \in mine} |->
            NicNew(qubits[CHOOSE e \in mine : peer_of(e) = p])]

\* Time of the events popped next.
MinTime == MinOf({e.time : e \in BagToSet(events)})

\* EventQueue::pop gives an event of the smallest time; which one among
\* events of equal time is left to the binary heap.
Popped(e, type) ==
    /\ sim_status = "running"
    /\ e \in BagToSet(events)
    /\ e.time = MinTime
    /\ e.type = type

\* Simulation::update after event e was popped: every new event is pushed,
\* its delay added to the time of e. An event later than ExperimentEnd is
\* never popped and is left out.
update(e, new_events) ==
    (events (-) SetToBag({e}))
    (+) SetToBag({[time |-> e.time + n.delay, type |-> n.type, data |-> n.data] :
                    n \in {m \in new_events : e.time + m.delay <= Duration}})

\* Vec::swap_remove
swap_remove(seq, i) ==
    SubSeq([seq EXCEPT ![i] = seq[Len(seq)]], 1, Len(seq) - 1)

\* The loop of schedule_pending_requests from request i on: every Queued
\* request takes the newest Valid cell, locks it and sends an EsRequest,
\* until no Valid cell is left.
RECURSIVE schedule_from(_, _, _, _, _)
schedule_from(node_id, peer, cells, requests, i) ==
    IF i > Len(requests)
    THEN [cells |-> cells, requests |-> requests, events |-> {}]
    ELSE IF requests[i].status = Queued
    THEN LET newest == newest_valid(cells)
         IN IF newest.some
            THEN LET local_pair_id == newest.value
                     rest == schedule_from(node_id, peer,
                                 used(cells, local_pair_id).cells,
                                 [requests EXCEPT ![i].status =
                                     WaitingForResponse(
                                         MemoryCellId(peer, "Master", local_pair_id))],
                                 i + 1)
                 IN [rest EXCEPT !.events = @ \cup
                        {Event(latency, "EsRequest",
                               [epr |-> requests[i].epr, prev_hop |-> node_id,
                                next_hop |-> peer, path |-> requests[i].path,
                                local_pair_id |-> local_pair_id])}]
            ELSE [cells |-> cells, requests |-> requests, events |-> {}]
    ELSE schedule_from(node_id, peer, cells, requests, i + 1)

\* Variant of schedule_pending_requests that schedules nothing.
schedule_pending_requests_never(node_id, peer, masters, pending) ==
    [nics_master |-> masters, pending_requests |-> pending, events |-> {}]

\* Node::schedule_pending_requests on the master Nics and the pending
\* requests of a node.
schedule_pending_requests(node_id, peer, masters, pending) ==
    IF peer \in DOMAIN masters /\ peer \in DOMAIN pending
    THEN LET r == schedule_from(node_id, peer, masters[peer], pending[peer], 1)
         IN [nics_master |-> [masters EXCEPT ![peer] = r.cells],
             pending_requests |-> [pending EXCEPT ![peer] = r.requests],
             events |-> r.events]
    ELSE [nics_master |-> masters, pending_requests |-> pending, events |-> {}]

InitSim ==
    /\ \E qubits \in {q \in [SimEdges -> 1..NicSize] :
                        \A g, h \in SimEdges : q[g] - q[h] <= 1} :
          /\ nics_master = [n \in NodeIds |-> NicsOfRole(n, "Master", qubits)]
          /\ nics_slave = [n \in NodeIds |-> NicsOfRole(n, "Slave", qubits)]
    /\ \E first \in [SimEdges -> RandomDelays], request \in RandomDelays :
          events = SetToBag(
              {[time |-> first[g], type |-> "EprGenerated",
                data |-> [tx_node_id |-> g.tx, master_node_id |-> g.master,
                          slave_node_id |-> g.slave]] :
                  g \in {h \in SimEdges : first[h] <= Duration}}
              \cup {[time |-> request, type |-> "EprRequest",
                     data |-> [node_id |-> source_dest_pair.this_node_id]] :
                      x \in {y \in {request} : y <= Duration}}
              \cup {[time |-> Duration, type |-> "ExperimentEnd", data |-> <<>>]})
    /\ clock = 0
    /\ epr_register = [epr_pairs |-> <<>>, last_epr_pair_id |-> 0]
    /\ pending_requests = [n \in NodeIds |-> <<>>]
    /\ client = [next_request_id |-> 0, pending |-> <<>>]
    /\ server = [pending |-> <<>>]
    /\ latency \in Delays
    /\ sim_status = "running"
    /\ RegFresh
    /\ NicIdle
    /\ TopoIdle
    /\ queue = <<>>
    /\ last_time = 0
    /\ run_last_time = 0
    /\ handling = NoEvent
    /\ run_status = "running"
    /\ overflow_checks = FALSE
    /\ RunIdle
    /\ PingIdle
    /\ FidIdle
    /\ EsIdle
    /\ XferIdle
    /\ MainIdle
    /\ DetIdle
    /\ ClientIdle
    /\ GridIdle
    /\ SchedIdle

\* ExperimentEnd: the main loop breaks.
HandleExperimentEnd ==
    \E e \in BagToSet(events) :
        /\ Popped(e, "ExperimentEnd")
        /\ events' = update(e, {})
        /\ clock' = e.time
        /\ sim_status' = "ended"
        /\ UNCHANGED <<nics_master, nics_slave, epr_register, pending_requests,
                       client, server, latency>>
        /\ UNCHANGED notSim

\* Network::handle_epr_generated: register a new pair, notify master and
\* slave now, and arm the generator again. The fidelity look-up succeeds on
\* the edges of this network.
HandleEprGenerated ==
    \E e \in BagToSet(events) : \E next_epr_generation \in RandomDelays :
        /\ Popped(e, "EprGenerated")
        /\ epr_register.last_epr_pair_id < MaxGenerated
        /\ LET data == e.data
               r == new_epr_pair(epr_register.epr_pairs,
                                 epr_register.last_epr_pair_id,
                                 data.master_node_id, data.slave_node_id, e.time,
                                 FidelityOf(data.master_node_id, data.slave_node_id))
               notified(this, peer, role) ==
                   Event(0, "EprNotified",
                         [this_node_id |-> this, peer_node_id |-> peer,
                          role |-> role, epr_pair_id |-> r.ret])
           IN /\ epr_register' = [epr_pairs |-> r.pairs, last_epr_pair_id |-> r.last_id]
              /\ sim_status' = IF r.panic THEN "panic: duplicate pair id" ELSE "running"
              /\ events' = update(e,
                    {notified(data.master_node_id, data.slave_node_id, "Master"),
                     notified(data.slave_node_id, data.master_node_id, "Slave"),
                     Event(next_epr_generation, "EprGenerated", data)})
        /\ clock' = e.time
        /\ UNCHANGED <<nics_master, nics_slave, pending_requests, client, server,
                       latency>>
        /\ UNCHANGED notSim

\* The node Network::handle_epr_notified hands the peer's node instead of
\* the notified one when the role is Slave.
notified_node_of_master(data) ==
    IF data.role = "Master" THEN data.this_node_id ELSE data.peer_node_id

\* The node Network::handle_epr_notified hands the notification to.
notified_node(data) == data.this_node_id

\* Network::handle_epr_notified and Node::epr_established on the Nics and
\* pending requests `st` of the network, for the notification popped at time
\* now: store the pair in the Nic toward the peer, then schedule the requests
\* pending for the peer. `emitted` collects the events pushed, at their
\* absolute times. Nothing is handled after a panic.
epr_notified(st, now, data) ==
    LET this == notified_node(data)
        peer == data.peer_node_id
        nics == IF data.role = "Master" THEN st.nics_master[this]
                ELSE st.nics_slave[this]
    IN IF st.sim_status # "running"
       THEN st
       ELSE IF peer \notin DOMAIN nics
       THEN [st EXCEPT !.sim_status = "panic: could not find NIC"]
       ELSE LET added == [nics EXCEPT ![peer] =
                             add_epr_pair(nics[peer], now, data.epr_pair_id).cells]
                masters == IF data.role = "Master" THEN added
                           ELSE st.nics_master[this]
                s == schedule_pending_requests(this, peer, masters,
                                               st.pending_requests[this])
            IN [nics_master |-> [st.nics_master EXCEPT ![this] = s.nics_master],
                nics_slave |-> IF data.role = "Slave"
                               THEN [st.nics_slave EXCEPT ![this] = added]
                               ELSE st.nics_slave,
                pending_requests |->
                    [st.pending_requests EXCEPT ![this] = s.pending_requests],
                emitted |-> st.emitted (+) SetToBag(
                    {[time |-> now + n.delay, type |-> n.type, data |-> n.data] :
                        n \in s.events}),
                sim_status |-> "running"]

\* The Nics and pending requests of the network, nothing emitted yet.
NetworkState ==
    [nics_master |-> nics_master, nics_slave |-> nics_slave,
     pending_requests |-> pending_requests, emitted |-> EmptyBag,
     sim_status |-> sim_status]

\* Network::handle_epr_notified and Node::epr_established: store the pair in
\* the Nic toward the peer, then schedule the requests pending for the peer.
HandleEprNotified ==
    \E e \in BagToSet(events) :
        /\ Popped(e, "EprNotified")
        /\ LET st == epr_notified(NetworkState, e.time, e.data)
           IN /\ nics_master' = st.nics_master
              /\ nics_slave' = st.nics_slave
              /\ pending_requests' = st.pending_requests
              /\ events' = update(e, {[delay |-> n.time - e.time, type |-> n.type,
                                       data |-> n.data] : n \in BagToSet(st.emitted)})
              /\ sim_status' = st.sim_status
        /\ clock' = e.time
        /\ UNCHANGED <<epr_register, client, server, latency>>
        /\ UNCHANGED notSim

\* Client::handle_epr_request: send the request to the node, remember it as
\* pending and schedule the next request.
HandleEprRequest ==
    \E e \in BagToSet(events) : \E next_epr \in RandomDelays :
        /\ Popped(e, "EprRequest")
        /\ client.next_request_id < MaxRequests
        /\ events' = update(e,
              {Event(0, "EprRequestApp",
                     EprFiveTuple(source_dest_pair.this_node_id,
                                  source_dest_pair.peer_node_id,
                                  client.next_request_id)),
               Event(next_epr, "EprRequest", e.data)})
        /\ client' = [next_request_id |-> client.next_request_id + 1,
                      pending |-> MapInsert(client.pending, client.next_request_id,
                                     [memory_cell |-> None,
                                      local_operations_done |-> FALSE,
                                      remote_operations_done |-> FALSE,
                                      created |-> e.time])]
        /\ clock' = e.time
        /\ UNCHANGED <<nics_master, nics_slave, epr_register, pending_requests,
                       server, latency, sim_status>>
        /\ UNCHANGED notSim

\* Node::handle_epr_request_app: queue the request toward the last node of
\* the path and schedule the requests pending for it.
HandleEprRequestApp ==
    \E e \in BagToSet(events) :
        /\ Popped(e, "EprRequestApp")
        /\ LET epr == e.data
               this == epr.source_node_id
               the_path == path(epr.source_node_id, epr.target_node_id)
               peer == the_path[Len(the_path)]
               pending == pending_requests[this]
               queued == MapInsert(pending, peer,
                            Append(IF peer \in DOMAIN pending THEN pending[peer] ELSE <<>>,
                                   [received |-> e.time, epr |-> epr,
                                    status |-> Queued, path |-> the_path]))
               s == schedule_pending_requests(this, peer, nics_master[this], queued)
           IN /\ nics_master' = [nics_master EXCEPT ![this] = s.nics_master]
              /\ pending_requests' =
                    [pending_requests EXCEPT ![this] = s.pending_requests]
              /\ events' = update(e, s.events)
        /\ clock' = e.time
        /\ UNCHANGED <<nics_slave, epr_register, client, server, latency,
                       sim_status>>
        /\ UNCHANGED notSim

\* Node::handle_es_request on the target node: lock the named cell of the
\* slave Nic toward prev_hop; if it is Valid the local operations complete
\* at once (single hop), otherwise EsFailure goes back to prev_hop.
HandleEsRequest ==
    \E e \in BagToSet(events) :
        /\ Popped(e, "EsRequest")
        /\ LET data == e.data
               this == data.next_hop
               nics == nics_slave[this]
           IN IF data.prev_hop \notin DOMAIN nics
              THEN /\ sim_status' = "panic: received an EsRequest from an unknown peer"
                   /\ events' = update(e, {})
                   /\ UNCHANGED nics_slave
              ELSE LET r == used(nics[data.prev_hop], data.local_pair_id)
                   IN /\ nics_slave' = [nics_slave EXCEPT ![this][data.prev_hop] = r.cells]
                      /\ events' = update(e,
                            IF r.ret THEN {Event(0, "EsLocalComplete", data)}
                            ELSE {Event(latency, "EsFailure", data)})
                      /\ sim_status' = "running"
        /\ clock' = e.time
        /\ UNCHANGED <<nics_master, epr_register, pending_requests, client, server,
                       latency>>
        /\ UNCHANGED notSim

\* Node::handle_es_local_complete on the last node of the path: tell the
\* source node and answer the local application.
HandleEsLocalComplete ==
    \E e \in BagToSet(events) :
        /\ Popped(e, "EsLocalComplete")
        /\ LET data == e.data
           IN events' = update(e,
                 {Event(latency, "EsRemoteComplete", data.epr),
                  Event(0, "EprResponse",
                        [epr |-> data.epr, is_source |-> FALSE,
                         memory_cell |-> Some(MemoryCellId(data.prev_hop, "Slave",
                                                           data.local_pair_id))])})
        /\ clock' = e.time
        /\ UNCHANGED <<nics_master, nics_slave, epr_register, pending_requests,
                       client, server, latency, sim_status>>
        /\ UNCHANGED notSim

\* Node::handle_es_response for EsFailure: nothing is done.
HandleEsFailure ==
    \E e \in BagToSet(events) :
        /\ Popped(e, "EsFailure")
        /\ events' = update(e, {})
        /\ clock' = e.time
        /\ UNCHANGED <<nics_master, nics_slave, epr_register, pending_requests,
                       client, server, latency, sim_status>>
        /\ UNCHANGED notSim

\* Index of the first request of the list with the five-tuple, 0 if none.
position(requests, epr) ==
    LET hits == {i \in 1..Len(requests) : requests[i].epr = epr}
    IN IF hits = {} THEN 0 ELSE MinOf(hits)

\* A handle_es_remote_complete that leaves the request in the pending table.
EsRemoteCompleteKept(e) ==
        /\ Popped(e, "EsRemoteComplete")
        /\ LET epr == e.data
               this == epr.source_node_id
               pending == pending_requests[this]
               peers == {p \in DOMAIN pending : position(pending[p], epr) # 0}
           IN IF peers = {}
              THEN /\ sim_status' = "panic: could not find a queued request"
                   /\ events' = update(e, {})
                   /\ UNCHANGED pending_requests
              ELSE \E p \in peers :
                      LET epr_ndx == position(pending[p], epr)
                          request == pending[p][epr_ndx]
                      IN /\ UNCHANGED pending_requests
                         /\ IF request.status.state = "WaitingForResponse"
                            THEN /\ events' = update(e,
                                       {Event(0, "EprResponse",
                                              [epr |-> epr, is_source |-> TRUE,
                                               memory_cell |->
                                                   Some(request.status.memory_cell)])})
                                 /\ sim_status' = "running"
                            ELSE /\ events' = update(e, {})
                                 /\ sim_status' = "panic: wrong queued request"
        /\ clock' = e.time
        /\ UNCHANGED <<nics_master, nics_slave, epr_register, client, server,
                       latency>>

\* Node::handle_es_remote_complete on the source node: remove the request
\* and answer the application with the cell the request was waiting on.
EsRemoteCompleteStep(e) ==
        /\ Popped(e, "EsRemoteComplete")
        /\ LET epr == e.data
               this == epr.source_node_id
               pending == pending_requests[this]
               peers == {p \in DOMAIN pending : position(pending[p], epr) # 0}
           IN IF peers = {}
              THEN /\ sim_status' = "panic: could not find a queued request"
                   /\ events' = update(e, {})
                   /\ UNCHANGED pending_requests
              ELSE \E p \in peers :
                      LET epr_ndx == position(pending[p], epr)
                          request == pending[p][epr_ndx]
                      IN /\ pending_requests' =
                               [pending_requests EXCEPT ![this][p] =
                                   swap_remove(pending[p], epr_ndx)]
                         /\ IF request.status.state = "WaitingForResponse"
                            THEN /\ events' = update(e,
                                       {Event(0, "EprResponse",
                                              [epr |-> epr, is_source |-> TRUE,
                                               memory_cell |->
                                                   Some(request.status.memory_cell)])})
                                 /\ sim_status' = "running"
                            ELSE /\ events' = update(e, {})
                                 /\ sim_status' = "panic: wrong queued request"
        /\ clock' = e.time
        /\ UNCHANGED <<nics_master, nics_slave, epr_register, client, server,
                       latency>>

HandleEsRemoteComplete ==
    \E e \in BagToSet(events) :
        /\ EsRemoteCompleteStep(e)
        /\ UNCHANGED notSim

\* Client::handle_epr_response: remember the cell of the request and start
\* the local operations.
ClientEprResponse ==
    \E e \in BagToSet(events) : \E local_ops \in Delays :
        /\ Popped(e, "EprResponse")
        /\ e.data.is_source
        /\ LET request_id == e.data.epr.request_id
           IN IF request_id \notin DOMAIN client.pending
              THEN /\ sim_status' = "panic: non-existing pending request"
                   /\ events' = update(e, {})
                   /\ UNCHANGED client
              ELSE IF client.pending[request_id].memory_cell.some
              THEN /\ sim_status' = "panic: duplicate response received"
                   /\ events' = update(e, {})
                   /\ UNCHANGED client
              ELSE /\ client' = [client EXCEPT
                                    !.pending[request_id].memory_cell = e.data.memory_cell]
                   /\ events' = update(e,
                         {Event(local_ops, "LocalComplete",
                                [epr |-> e.data.epr, is_source |-> TRUE])})
                   /\ sim_status' = "running"
        /\ clock' = e.time
        /\ UNCHANGED <<nics_master, nics_slave, epr_register, pending_requests,
                       server, latency>>
        /\ UNCHANGED notSim

\* Server::handle_epr_response: remember the cell and start the local
\* operations.
ServerEprResponse ==
    \E e \in BagToSet(events) : \E local_ops \in Delays :
        /\ Popped(e, "EprResponse")
        /\ ~e.data.is_source
        /\ server' = [pending |-> MapInsert(server.pending, e.data.epr.request_id,
                                     [memory_cell |-> e.data.memory_cell.value,
                                      client_node_id |-> e.data.epr.source_node_id])]
        /\ events' = update(e,
              {Event(local_ops, "LocalComplete",
                     [epr |-> e.data.epr, is_source |-> FALSE])})
        /\ clock' = e.time
        /\ UNCHANGED <<nics_master, nics_slave, epr_register, pending_requests,
                       client, latency, sim_status>>
        /\ UNCHANGED notSim

EprFidelityData(app_node_id, consume_node_id, memory_cell) ==
    [app_node_id |-> app_node_id, consume_node_id |-> consume_node_id,
     neighbor_node_id |-> memory_cell.neighbor_node_id, role |-> memory_cell.role,
     index |-> memory_cell.local_pair_id]

\* Client::handle_local_complete: the local operations are done, measure
\* the fidelity of the cell; the request is removed if the remote
\* operations are done too.
ClientLocalComplete ==
    \E e \in BagToSet(events) :
        /\ Popped(e, "LocalComplete")
        /\ e.data.is_source
        /\ LET request_id == e.data.epr.request_id
               this == source_dest_pair.this_node_id
           IN IF request_id \notin DOMAIN client.pending
              THEN /\ sim_status' = "panic: non-existing pending request"
                   /\ events' = update(e, {})
                   /\ UNCHANGED client
              ELSE LET request == client.pending[request_id]
                   IN IF request.local_operations_done
                      THEN /\ sim_status' = "panic: duplicate execution of local operations"
                           /\ events' = update(e, {})
                           /\ UNCHANGED client
                      ELSE IF ~request.memory_cell.some
                      THEN /\ sim_status' = "panic: local operation completed on a failed request"
                           /\ events' = update(e, {})
                           /\ client' = [client EXCEPT
                                 !.pending[request_id].local_operations_done = TRUE]
                      ELSE /\ events' = update(e,
                                 {Event(0, "EprFidelity",
                                        EprFidelityData(this, this,
                                                        request.memory_cell.value))})
                           /\ client' =
                                 IF request.remote_operations_done
                                 THEN [client EXCEPT
                                         !.pending = MapRemove(client.pending, request_id)]
                                 ELSE [client EXCEPT
                                         !.pending[request_id] =
                                            [request EXCEPT
                                                !.local_operations_done = TRUE,
                                                !.memory_cell = None]]
                           /\ sim_status' = "running"
        /\ clock' = e.time
        /\ UNCHANGED <<nics_master, nics_slave, epr_register, pending_requests,
                       server, latency>>
        /\ UNCHANGED notSim

\* Server::handle_local_complete: remove the pending entry and measure the
\* fidelity of its cell.
ServerLocalComplete ==
    \E e \in BagToSet(events) :
        /\ Popped(e, "LocalComplete")
        /\ ~e.data.is_source
        /\ LET request_id == e.data.epr.request_id
           IN IF request_id \notin DOMAIN server.pending
              THEN /\ sim_status' = "panic: non-existing pending request"
                   /\ events' = update(e, {})
                   /\ UNCHANGED server
              ELSE LET request == server.pending[request_id]
                   IN /\ server' = [pending |-> MapRemove(server.pending, request_id)]
                      /\ events' = update(e,
                            {Event(0, "EprFidelity",
                                   EprFidelityData(request.client_node_id,
                                                   source_dest_pair.peer_node_id,
                                                   request.memory_cell))})
                      /\ sim_status' = "running"
        /\ clock' = e.time
        /\ UNCHANGED <<nics_master, nics_slave, epr_register, pending_requests,
                       client, latency>>
        /\ UNCHANGED notSim

\* Variant of handle_epr_fidelity that pops the pair from the register at
\* the first measurement.
handle_epr_fidelity_pop(data, now, key) ==
    LET this == data.consume_node_id
        nics == IF data.role = "Master" THEN nics_master[this] ELSE nics_slave[this]
        outcome(n, pairs, status) == [nics |-> n, epr_pairs |-> pairs, status |-> status]
    IN IF key \notin DOMAIN nics
       THEN outcome(nics, epr_register.epr_pairs, "panic: could not find NIC")
       ELSE LET c == consume(nics[key], data.index)
            IN IF ~c.ret.some
               THEN outcome(nics, epr_register.epr_pairs, "panic: no EPR found")
               ELSE LET r == register_consume(epr_register.epr_pairs,
                                              c.ret.value.local_pair_id,
                                              data.consume_node_id)
                        after == [nics EXCEPT ![key] = c.cells]
                    IN IF ~r.ret.some
                       THEN outcome(after, r.pairs, "panic: EPR pair not found")
                       ELSE IF now < r.ret.value[1]
                       THEN outcome(after, r.pairs, "panic: now < updated")
                       ELSE outcome(after,
                                    MapRemove(epr_register.epr_pairs,
                                              c.ret.value.local_pair_id),
                                    "running")

\* The body of Network::handle_epr_fidelity: Node::consume on the Nic that
\* the consuming node keeps under `key`, then EprRegister::consume for the
\* consuming node. The result is the Nics of the role of the consuming
\* node, the pairs of the register and how the handler ends.
handle_epr_fidelity(data, now, key) ==
    LET this == data.consume_node_id
        nics == IF data.role = "Master" THEN nics_master[this] ELSE nics_slave[this]
        outcome(n, pairs, status) == [nics |-> n, epr_pairs |-> pairs, status |-> status]
    IN IF key \notin DOMAIN nics
       THEN outcome(nics, epr_register.epr_pairs, "panic: could not find NIC")
       ELSE LET c == consume(nics[key], data.index)
            IN IF ~c.ret.some
               THEN outcome(nics, epr_register.epr_pairs, "panic: no EPR found")
               ELSE LET r == register_consume(epr_register.epr_pairs,
                                              c.ret.value.local_pair_id,
                                              data.consume_node_id)
                        after == [nics EXCEPT ![key] = c.cells]
                    IN IF ~r.ret.some
                       THEN outcome(after, r.pairs, "panic: EPR pair not found")
                       ELSE IF now < r.ret.value[1]
                       THEN outcome(after, r.pairs, "panic: now < updated")
                       ELSE outcome(after, r.pairs, "running")

\* Network::handle_epr_fidelity. Node::consume looks the Nic up by the peer
\* of the node; the handler passes consume_node_id, and the event also
\* carries neighbor_node_id, the id of the neighbor that identifies the Nic:
\* the key is either of the two.
HandleEprFidelity ==
    \E e \in {x \in BagToSet(events) : x.type = "EprFidelity"} :
      \E key \in {e.data.consume_node_id, e.data.neighbor_node_id} :
        /\ Popped(e, "EprFidelity")
        /\ LET data == e.data
               this == data.consume_node_id
               r == handle_epr_fidelity(data, e.time, key)
           IN /\ nics_master' = IF data.role = "Master"
                                THEN [nics_master EXCEPT ![this] = r.nics]
                                ELSE nics_master
              /\ nics_slave' = IF data.role = "Slave"
                               THEN [nics_slave EXCEPT ![this] = r.nics]
                               ELSE nics_slave
              /\ epr_register' = [epr_register EXCEPT !.epr_pairs = r.epr_pairs]
              /\ sim_status' = r.status
        /\ events' = update(e, {})
        /\ clock' = e.time
        /\ UNCHANGED <<pending_requests, client, server, latency>>
        /\ UNCHANGED notSim

NextSim ==
    \/ HandleExperimentEnd
    \/ HandleEprGenerated
    \/ HandleEprNotified
    \/ HandleEprRequest
    \/ HandleEprRequestApp
    \/ HandleEsRequest
    \/ HandleEsLocalComplete
    \/ HandleEsFailure
    \/ HandleEsRemoteComplete
    \/ ClientEprResponse
    \/ ServerEprResponse
    \/ ClientLocalComplete
    \/ ServerLocalComplete
    \/ HandleEprFidelity

SpecSim == InitSim /\ [][NextSim]_vars

\* The cells of all the Nics of all the nodes.
CellsOf(nics) ==
    UNION {{nics[np[1]][np[2]][i] : i \in 1..Len(nics[np[1]][np[2]])} :
              np \in {x \in NodeIds \X NodeIds : x[2] \in DOMAIN nics[x[1]]}}

AllCells == CellsOf(nics_master) \cup CellsOf(nics_slave)

pinger_handle_epr_request_uncounted(p, now) == [p EXCEPT !.created = now]

\* Pinger::handle_epr_request, the fields of the Pinger: the request is
\* timestamped and counted; next_request_id is the number of requests issued.
pinger_handle_epr_request(p, now) ==
    [p EXCEPT !.created = now, !.next_request_id = @ + 1]

InitPing ==
    /\ \E qubits \in {q \in [SimEdges -> 1..NicSize] :
                        \A g, h \in SimEdges : q[g] - q[h] <= 1} :
          /\ nics_master = [n \in NodeIds |-> NicsOfRole(n, "Master", qubits)]
          /\ nics_slave = [n \in NodeIds |-> NicsOfRole(n, "Slave", qubits)]
    /\ \E first \in [SimEdges -> RandomDelays] :
          events = SetToBag(
              {[time |-> first[g], type |-> "EprGenerated",
                data |-> [tx_node_id |-> g.tx, master_node_id |-> g.master,
                          slave_node_id |-> g.slave]] :
                  g \in {h \in SimEdges : first[h] <= Duration}}
              \cup {[time |-> 0, type |-> "EprRequest",
                     data |-> [node_id |-> source_dest_pair.this_node_id]]}
              \cup {[time |-> Duration, type |-> "ExperimentEnd", data |-> <<>>]})
    /\ clock = 0
    /\ epr_register = [epr_pairs |-> <<>>, last_epr_pair_id |-> 0]
    /\ pending_requests = [n \in NodeIds |-> <<>>]
    /\ client = <<>>
    /\ server = <<>>
    /\ latency \in Delays
    /\ sim_status = "running"
    /\ \E max_requests \in 0..MaxPingRequests :
          pinger = [next_request_id |-> 0, created |-> 0,
                    max_requests |-> max_requests]
    /\ pinger_responses = 0
    /\ RegFresh
    /\ NicIdle
    /\ TopoIdle
    /\ RunIdle
    /\ queue = <<>>
    /\ last_time = 0
    /\ run_last_time = 0
    /\ handling = NoEvent
    /\ run_status = "running"
    /\ overflow_checks = FALSE
    /\ FidIdle
    /\ EsIdle
    /\ XferIdle
    /\ MainIdle
    /\ DetIdle
    /\ ClientIdle
    /\ GridIdle
    /\ SchedIdle

\* Pinger::handle_epr_request: send the request to the OS.
PingerEprRequest ==
    \E e \in BagToSet(events) :
        /\ Popped(e, "EprRequest")
        /\ pinger' = pinger_handle_epr_request(pinger, e.time)
        /\ events' = update(e,
              {Event(0, "EprRequestApp",
                     EprFiveTuple(source_dest_pair.this_node_id,
                                  source_dest_pair.peer_node_id,
                                  pinger'.next_request_id))})
        /\ clock' = e.time
        /\ UNCHANGED <<nics_master, nics_slave, epr_register, pending_requests,
                       client, server, latency, sim_status, pinger_responses>>
        /\ UNCHANGED notPing

\* Pinger::handle_epr_response: measure the fidelity of the local end and
\* ask for the next pair unless the maximum number of requests is reached.
PingerEprResponse ==
    \E e \in BagToSet(events) :
        /\ Popped(e, "EprResponse")
        /\ e.data.is_source
        /\ IF ~e.data.memory_cell.some
           THEN /\ sim_status' = "panic: empty memory cell received"
                /\ events' = update(e, {})
           ELSE /\ sim_status' = "running"
                /\ events' = update(e,
                      {Event(0, "EprFidelity",
                             EprFidelityData(source_dest_pair.this_node_id,
                                             source_dest_pair.this_node_id,
                                             e.data.memory_cell.value))}
                      \cup (IF pinger.next_request_id < pinger.max_requests
                            THEN {Event(0, "EprRequest",
                                        [node_id |-> source_dest_pair.this_node_id])}
                            ELSE {}))
        /\ pinger_responses' = pinger_responses + 1
        /\ clock' = e.time
        /\ UNCHANGED <<nics_master, nics_slave, epr_register, pending_requests,
                       client, server, latency, pinger>>
        /\ UNCHANGED notPing

\* Ponger::handle_epr_response: consume the local end of the pair at once.
PongerEprResponse ==
    \E e \in BagToSet(events) :
        /\ Popped(e, "EprResponse")
        /\ ~e.data.is_source
        /\ IF ~e.data.memory_cell.some
           THEN /\ sim_status' = "panic: empty memory cell received"
                /\ events' = update(e, {})
           ELSE /\ sim_status' = "running"
                /\ events' = update(e,
                      {Event(0, "EprFidelity",
                             EprFidelityData(e.data.epr.source_node_id,
                                             source_dest_pair.peer_node_id,
                                             e.data.memory_cell.value))})
        /\ clock' = e.time
        /\ UNCHANGED <<nics_master, nics_slave, epr_register, pending_requests,
                       client, server, latency, pinger, pinger_responses>>
        /\ UNCHANGED notPing

NextPing ==
    \/ HandleExperimentEnd
    \/ HandleEprGenerated
    \/ HandleEprNotified
    \/ HandleEprRequestApp
    \/ HandleEsRequest
    \/ HandleEsLocalComplete
    \/ HandleEsRemoteComplete
    \/ HandleEprFidelity
    \/ PingerEprRequest
    \/ PingerEprResponse
    \/ PongerEprResponse

SpecPing == InitPing /\ [][NextPing]_vars

C15_AtMostMaxRequests ==
    sim_status # "idle" => pinger.next_request_id <= pinger.max_requests

\* --------------------------------------------------------------- fidelity
\* utils::fidelity on the inputs Network::handle_epr_fidelity gives it: the
\* static fidelity of a validated configuration, the decay rate of a
\* validated node, the time the pair was held. Fidelities are counted in
\* hundredths. The decay rate is counted in units of ln 2, so that the
\* exponential of -decay_rate * time is 2^-(decay_rate * time), and a sample
\* is kept as a multiple of 1 / (100 * FidelityScale), which makes every
\* value of the model exact.

\* The denominator of the exponential: the largest power of two of the model.
FidelityScale == 2 ^ (MaxDecayRate * MaxHoldingTime)

\* The static fidelities a configuration may give, in hundredths.
StaticFidelityValues == {5 * k : k \in -1..21}

\* StaticFidelities::valid, for one of the five fidelities.
StaticFidelityValid(f) == ~(f < 0) /\ ~(f > 100)

\* The check of decay_rate of NodeWeight::valid.
DecayRateValid(decay_rate) == ~(decay_rate < 0)

\* exp(-x) as a multiple of 1 / FidelityScale.
exp_neg(x) == 2 ^ (MaxDecayRate * MaxHoldingTime - x)

\* utils::fidelity: 0.25 + (f_init - 0.25) * exp(-decay_rate * time), as a
\* multiple of 1 / (100 * FidelityScale).
fidelity(f_init, decay_rate, time) ==
    25 * FidelityScale + (f_init - 25) * exp_neg(decay_rate * time)

InitFid ==
    /\ fidelity_input \in
          {i \in [f_init : StaticFidelityValues, decay_rate : -1..MaxDecayRate,
                  time : {0}] :
              StaticFidelityValid(i.f_init) /\ DecayRateValid(i.decay_rate)}
    /\ fidelity_sample = fidelity(fidelity_input.f_init, fidelity_input.decay_rate, 0)
    /\ RegFresh
    /\ NicIdle
    /\ TopoIdle
    /\ SimIdle
    /\ RunIdle
    /\ PingIdle
    /\ queue = <<>>
    /\ last_time = 0
    /\ run_last_time = 0
    /\ handling = NoEvent
    /\ run_status = "running"
    /\ overflow_checks = FALSE
    /\ EsIdle
    /\ XferIdle
    /\ MainIdle
    /\ DetIdle
    /\ ClientIdle
    /\ GridIdle
    /\ SchedIdle

\* A pair of the same configuration is measured after being held for a time.
MeasureFidelity ==
    /\ \E time \in 0..MaxHoldingTime :
          /\ fidelity_input' = [fidelity_input EXCEPT !.time = time]
          /\ fidelity_sample' =
                fidelity(fidelity_input.f_init, fidelity_input.decay_rate, time)
    /\ UNCHANGED notFid

NextFid == MeasureFidelity

SpecFid == InitFid /\ [][NextFid]_vars

\* C18: for every validated configuration, every fidelity sample
\* 0.25 + (f0 - 0.25) * exp(-decay_rate * dt) lies in [0.25, 1.0], and the
\* sample taken at dt = 0 is f0.
C18_FidelityBounds ==
    /\ 25 * FidelityScale <= fidelity_sample
    /\ fidelity_sample <= 100 * FidelityScale
    /\ fidelity_input.time = 0 =>
          fidelity_sample = fidelity_input.f_init * FidelityScale

\* ---------------------------------------------------------------------------
\* The source node on EsRemoteComplete and EsRemoteFailed (node.rs)
\* ---------------------------------------------------------------------------

\* The requests of a node's pending table that carry the five-tuple.
matching(pending, epr) ==
    UNION {{pending[p][i] : i \in {j \in 1..Len(pending[p]) : pending[p][j].epr = epr}} :
              p \in DOMAIN pending}

\* The EprResponse (is_source) events for the five-tuple that the step pushed.
pushed_responses(epr) ==
    {x \in BagToSet(events') :
        /\ x.type = "EprResponse"
        /\ x.data.is_source
        /\ x.data.epr = epr
        /\ CopiesIn(x, events') > CopiesIn(x, events)}

\* Node::handle_es_remote_complete, with a count of the responses pushed.
EsRemoteComplete ==
    \E e \in BagToSet(events) :
        /\ EsRemoteCompleteStep(e)
        /\ es_responses' = es_responses (+)
              SetToBag({x.data.epr : x \in pushed_responses(e.data)})
        /\ UNCHANGED es_failed
        /\ UNCHANGED notEs

\* The five-tuples the Client has issued so far.
IssuedEprs ==
    {EprFiveTuple(source_dest_pair.this_node_id, source_dest_pair.peer_node_id, id) :
        id \in 0..(client.next_request_id - 1)}

\* Node::handle_es_remote_failed on the source node, for the five-tuple of
\* a request issued earlier: the request found is removed from the pending
\* table and handed to handle_epr_request_app with its own received time.
\* No cell of a Nic is touched but by the scheduling of the new request.
HandleEsRemoteFailed ==
    \E epr \in IssuedEprs :
        /\ sim_status = "running"
        /\ Len(es_failed) < MaxRemoteFailed
        /\ LET this == epr.source_node_id
               pending == pending_requests[this]
               peers == {p \in DOMAIN pending : position(pending[p], epr) # 0}
           IN IF peers = {}
              THEN UNCHANGED <<nics_master, pending_requests, events>>
              ELSE \E p \in peers :
                      LET epr_ndx == position(pending[p], epr)
                          request == pending[p][epr_ndx]
                          removed == [pending EXCEPT ![p] = swap_remove(pending[p], epr_ndx)]
                          the_path == path(request.epr.source_node_id,
                                           request.epr.target_node_id)
                          peer == the_path[Len(the_path)]
                          queued == MapInsert(removed, peer,
                                       Append(IF peer \in DOMAIN removed
                                              THEN removed[peer] ELSE <<>>,
                                              [received |-> request.received,
                                               epr |-> request.epr,
                                               status |-> Queued, path |-> the_path]))
                          s == schedule_pending_requests(this, peer, nics_master[this],
                                                         queued)
                      IN /\ nics_master' = [nics_master EXCEPT ![this] = s.nics_master]
                         /\ pending_requests' =
                               [pending_requests EXCEPT ![this] = s.pending_requests]
                         /\ events' = events (+) SetToBag(
                               {[time |-> clock + n.delay, type |-> n.type,
                                 data |-> n.data] :
                                   n \in {m \in s.events : clock + m.delay <= Duration}})
        /\ es_failed' = Append(es_failed, epr)
        /\ UNCHANGED <<clock, nics_slave, epr_register, client, server, latency,
                       sim_status, es_responses>>
        /\ UNCHANGED notEs

\* A run of the network in which remote entanglement swapping may fail:
\* the Client and the generator of the logical edge its node is the master
\* of start within the experiment, the other generator after its end.
InitEs ==
    /\ InitSim
    /\ \A g \in SimEdges :
          (g.master = source_dest_pair.this_node_id) <=>
              \E e \in BagToSet(events) :
                  /\ e.type = "EprGenerated"
                  /\ e.data.master_node_id = g.master
                  /\ e.data.slave_node_id = g.slave
    /\ \E e \in BagToSet(events) : e.type = "EprRequest"

NextEs ==
    \/ HandleExperimentEnd
    \/ HandleEprGenerated
    \/ HandleEprNotified
    \/ HandleEprRequest
    \/ HandleEprRequestApp
    \/ HandleEsRequest
    \/ HandleEsLocalComplete
    \/ HandleEsFailure
    \/ EsRemoteComplete
    \/ HandleEsRemoteFailed
    \/ ClientEprResponse
    \/ ServerEprResponse
    \/ ClientLocalComplete
    \/ ServerLocalComplete
    \/ HandleEprFidelity

SpecEs == InitEs /\ [][NextEs]_vars

\* C19: when the source node handles EsRemoteFailed for a five-tuple, the
\* cell of the master Nic that the matching pending request had locked is
\* reset to Empty, and the request is in the pending table again, Queued or
\* rescheduled, with the received time it had before.
C19_RemoteFailedFreesCell ==
    [][Len(es_failed') = Len(es_failed) + 1 =>
          LET epr == es_failed'[Len(es_failed')]
              this == epr.source_node_id
          IN \A r \in matching(pending_requests[this], epr) :
                /\ r.status.state = "WaitingForResponse" =>
                      LET cell == r.status.memory_cell
                          i == FindCell(nics_master[this][cell.neighbor_node_id],
                                        cell.local_pair_id)
                      IN i # 0 =>
                            is_empty(nics_master'[this][cell.neighbor_node_id][i])
                /\ matching(pending_requests'[this], epr) # {}
                /\ \A q \in matching(pending_requests'[this], epr) :
                      /\ q.received = r.received
                      /\ q.status.state \in {"Queued", "WaitingForResponse"}]_vars

\* The step pops an EsRemoteComplete event for the five-tuple.
PopsEsRemoteComplete(e) ==
    /\ e.type = "EsRemoteComplete"
    /\ CopiesIn(e, events') < CopiesIn(e, events)

\* C20: no five-tuple gets more than one EprResponse (is_source) event. Such
\* an event is pushed only when EsRemoteComplete is handled and the matching
\* pending request is WaitingForResponse on a cell: then it is pushed once,
\* carries that cell, and the request leaves the pending table. With no
\* matching request, or with one still Queued, the run ends in a panic and
\* nothing is pushed.
C20_OneResponsePerFiveTuple ==
    /\ [](\A epr \in BagToSet(es_responses) : CopiesIn(epr, es_responses) <= 1)
    /\ [][/\ \A e \in BagToSet(events) :
                PopsEsRemoteComplete(e) =>
                    LET this == e.data.source_node_id
                        found == matching(pending_requests[this], e.data)
                        responses == pushed_responses(e.data)
                    IN /\ found = {} =>
                             /\ sim_status' = "panic: could not find a queued request"
                             /\ responses = {}
                       /\ \A r \in found :
                             IF r.status.state = "WaitingForResponse"
                             THEN /\ sim_status' = "running"
                                  /\ \E x \in responses :
                                        /\ responses = {x}
                                        /\ x.data.memory_cell = Some(r.status.memory_cell)
                                        /\ CopiesIn(x, events') = CopiesIn(x, events) + 1
                                  /\ matching(pending_requests'[this], e.data) = {}
                             ELSE /\ sim_status' = "panic: wrong queued request"
                                  /\ responses = {}
          /\ \A epr \in IssuedEprs :
                pushed_responses(epr) # {} =>
                    \E e \in BagToSet(events) : PopsEsRemoteComplete(e) /\ e.data = epr]_vars

\* A response with the cell of the request was pushed after an EsRemoteFailed
\* had put the request back, and the request has left the pending table.
C20_Witness ==
    /\ es_failed # <<>>
    /\ \E x \in BagToSet(events) :
          /\ x.type = "EprResponse"
          /\ x.data.is_source
          /\ x.data.memory_cell.some
          /\ x.data.epr \in BagToSet(es_responses)
          /\ x.data.epr = es_failed[1]
          /\ matching(pending_requests[x.data.epr.source_node_id], x.data.epr) = {}

\* ---------------------------------------------------------------------------
\* Node::handle_epr_request_app on the paths of a logical topology (node.rs)
\* ---------------------------------------------------------------------------

\* The paths LogicalTopology::path can return from source to target in a
\* logical topology on the nodes: the nodes of a shortest walk, end nodes
\* included, with up to one node in between.
LogicalPaths(source, target) ==
    {<<source, target>>}
        \cup {<<source, via, target>> : via \in NodeIds \ {source, target}}

\* Node::handle_epr_request_app with the path the logical topology returned:
\* a path of more than two nodes ends in todo!(), otherwise the request is
\* queued toward the last node of the path and that peer is scheduled.
NodeEprRequestApp ==
    \E e \in {x \in BagToSet(events) : x.type = "EprRequestApp"} :
        \E the_path \in LogicalPaths(e.data.source_node_id, e.data.target_node_id) :
            /\ Popped(e, "EprRequestApp")
            /\ LET epr == e.data
                   this == epr.source_node_id
                   peer == the_path[Len(the_path)]
                   pending == pending_requests[this]
                   queued == MapInsert(pending, peer,
                                Append(IF peer \in DOMAIN pending
                                       THEN pending[peer] ELSE <<>>,
                                       [received |-> e.time, epr |-> epr,
                                        status |-> Queued, path |-> the_path]))
                   s == schedule_pending_requests(this, peer, nics_master[this], queued)
               IN IF Len(the_path) > 2
                  THEN /\ sim_status' = "panic: multi-hop not yet implemented"
                       /\ events' = update(e, {})
                       /\ UNCHANGED <<nics_master, pending_requests>>
                  ELSE /\ nics_master' = [nics_master EXCEPT ![this] = s.nics_master]
                       /\ pending_requests' =
                             [pending_requests EXCEPT ![this] = s.pending_requests]
                       /\ events' = update(e, s.events)
                       /\ UNCHANGED sim_status
            /\ clock' = e.time
            /\ UNCHANGED <<nics_slave, epr_register, client, server, latency>>
            /\ UNCHANGED notSim

NextApp ==
    \/ HandleExperimentEnd
    \/ HandleEprGenerated
    \/ HandleEprNotified
    \/ HandleEprRequest
    \/ NodeEprRequestApp
    \/ HandleEsRequest
    \/ HandleEsLocalComplete
    \/ HandleEsFailure
    \/ HandleEsRemoteComplete
    \/ ClientEprResponse
    \/ ServerEprResponse
    \/ ClientLocalComplete
    \/ ServerLocalComplete
    \/ HandleEprFidelity

SpecApp == InitSim /\ [][NextApp]_vars

\* C21: when a node handles EprRequestApp, whatever the path (two nodes or
\* more) the logical topology returns for it, the run goes on and the node's
\* pending table holds, toward the second node of the path, a request with
\* the five-tuple and received = now, and no request toward that node is
\* left Queued while the master Nic toward it has a Valid cell.
C21_RequestQueuedToNextHop ==
    [][\A e \in BagToSet(events) :
          (e.type = "EprRequestApp" /\ CopiesIn(e, events') < CopiesIn(e, events)) =>
              LET this == e.data.source_node_id
                  pending == pending_requests'[this]
              IN /\ sim_status' = "running"
                 /\ \E next_hop \in DOMAIN pending :
                       /\ \E i \in 1..Len(pending[next_hop]) :
                             /\ pending[next_hop][i].epr = e.data
                             /\ pending[next_hop][i].received = e.time
                             /\ Len(pending[next_hop][i].path) >= 2
                             /\ pending[next_hop][i].path[1] = this
                             /\ pending[next_hop][i].path[2] = next_hop
                       /\ next_hop \in DOMAIN nics_master'[this] =>
                             ~ /\ \E i \in 1..Len(pending[next_hop]) :
                                     pending[next_hop][i].status = Queued
                               /\ \E j \in 1..Len(nics_master'[this][next_hop]) :
                                     is_valid(nics_master'[this][next_hop][j])]_vars

\* ---------------------------------------------------------------------------
\* Events on their way from a node to another (network.rs, node.rs)
\* ---------------------------------------------------------------------------

\* Time an event takes from a node to another: distance / c. The nodes are
\* taken one unit of time apart along a line.
XferLatency(src, dst) == IF src >= dst THEN src - dst ELSE dst - src

\* Event::new_transfer(event_type, src, dst): a NodeEvent for dst whose
\* transfer is still to be simulated. `sent` and `delayed` keep the time of
\* emission and the number of times the Network has delayed the event.
new_transfer(now, src, dst) ==
    [time |-> now, type |-> "NodeEvent", node_id |-> dst,
     transfer |-> Some([src |-> src, dst |-> dst, done |-> FALSE]),
     needs_latency |-> FALSE, peer_node_id |-> None,
     sent |-> now, delayed |-> 0]

\* Event::new(0.0, NodeEvent) for the node itself: no transfer.
new_local(now, node_id) ==
    [time |-> now, type |-> "NodeEvent", node_id |-> node_id,
     transfer |-> None, needs_latency |-> FALSE, peer_node_id |-> None,
     sent |-> now, delayed |-> 0]

\* An AppEvent for the application on node_id that comes from the peer's
\* node and needs the latency between the two.
new_app_event(now, node_id, peer_node_id) ==
    [time |-> now, type |-> "AppEvent", node_id |-> node_id,
     transfer |-> None, needs_latency |-> TRUE, peer_node_id |-> Some(peer_node_id),
     sent |-> now, delayed |-> 0]

InitXfer ==
    /\ xfer_events = EmptyBag
    /\ xfer_clock = 0
    /\ xfer_handled = {}
    /\ xfer_sent = 0
    /\ xfer_status = "running"
    /\ queue = <<>>
    /\ last_time = 0
    /\ run_last_time = 0
    /\ handling = NoEvent
    /\ run_status = "running"
    /\ overflow_checks = FALSE
    /\ NicIdle
    /\ RegFresh
    /\ TopoIdle
    /\ SimIdle
    /\ RunIdle
    /\ PingIdle
    /\ FidIdle
    /\ EsIdle
    /\ MainIdle
    /\ DetIdle
    /\ ClientIdle
    /\ GridIdle
    /\ SchedIdle

\* A handler of a node pushes an event: for another node with new_transfer
\* (EsRequest, EsFailure, EsRemoteComplete), for itself, or for an
\* application with the latency from the peer's node still to be applied.
XferEmit ==
    /\ xfer_status = "running"
    /\ xfer_sent < MaxTransfers
    /\ \E src \in NodeIds, dst \in NodeIds :
          \E e \in IF src = dst
                   THEN {new_local(xfer_clock, src)}
                   ELSE {new_transfer(xfer_clock, src, dst),
                         new_app_event(xfer_clock, dst, src)} :
              xfer_events' = xfer_events (+) SetToBag({e})
    /\ xfer_sent' = xfer_sent + 1
    /\ UNCHANGED <<xfer_clock, xfer_handled, xfer_status>>
    /\ UNCHANGED notXfer

\* EventQueue::pop on the events on their way.
XferPopped(e) ==
    /\ xfer_status = "running"
    /\ e \in BagToSet(xfer_events)
    /\ \A x \in BagToSet(xfer_events) : e.time <= x.time

\* Node::handle: an event with a transfer that is not done is refused.
NodeHandle(e) ==
    IF e.transfer.some /\ ~e.transfer.value.done
    THEN /\ xfer_status' =
               "panic: received an event for which the transfer has not been simulated"
         /\ UNCHANGED xfer_handled
    ELSE /\ xfer_handled' = xfer_handled \cup {e}
         /\ UNCHANGED xfer_status

\* A dispatcher that hands every NodeEvent to its node at once.
network_transfer_skipped(e) ==
    /\ xfer_events' = xfer_events (-) SetToBag({e})
    /\ NodeHandle(e)

\* The Network on a NodeEvent: an event whose transfer is not done is
\* put back distance / c later with the transfer done, any other is given
\* to the node.
network_transfer(e) ==
    IF e.transfer.some /\ ~e.transfer.value.done
    THEN /\ xfer_events' = (xfer_events (-) SetToBag({e})) (+) SetToBag(
               {[e EXCEPT !.time = e.time + XferLatency(e.transfer.value.src,
                                                        e.transfer.value.dst),
                          !.transfer = Some([e.transfer.value EXCEPT !.done = TRUE]),
                          !.delayed = e.delayed + 1]})
         /\ UNCHANGED <<xfer_handled, xfer_status>>
    ELSE /\ xfer_events' = xfer_events (-) SetToBag({e})
         /\ NodeHandle(e)

NetworkHandleNodeEvent ==
    \E e \in BagToSet(xfer_events) :
        /\ XferPopped(e)
        /\ e.type = "NodeEvent"
        /\ network_transfer(e)
        /\ xfer_clock' = e.time
        /\ UNCHANGED xfer_sent
        /\ UNCHANGED notXfer

\* A handle_app_event that leaves the latency flag of the event as it is.
handle_app_event_uncleared(e) ==
    IF e.needs_latency
    THEN /\ xfer_events' = (xfer_events (-) SetToBag({e})) (+) SetToBag(
               {[e EXCEPT !.time = e.time + XferLatency(e.node_id,
                                                        e.peer_node_id.value),
                          !.delayed = e.delayed + 1]})
         /\ UNCHANGED <<xfer_handled, xfer_status>>
    ELSE /\ xfer_events' = xfer_events (-) SetToBag({e})
         /\ NodeHandle(e)

\* Network::handle_app_event: an event that needs latency has the need
\* cleared and is put back after the latency of the distance between its
\* node and the peer's node; any other is given to its node.
handle_app_event(e) ==
    IF e.needs_latency
    THEN /\ xfer_events' = (xfer_events (-) SetToBag({e})) (+) SetToBag(
               {[e EXCEPT !.time = e.time + XferLatency(e.node_id,
                                                        e.peer_node_id.value),
                          !.needs_latency = FALSE,
                          !.delayed = e.delayed + 1]})
         /\ UNCHANGED <<xfer_handled, xfer_status>>
    ELSE /\ xfer_events' = xfer_events (-) SetToBag({e})
         /\ NodeHandle(e)

NetworkHandleAppEvent ==
    \E e \in BagToSet(xfer_events) :
        /\ XferPopped(e)
        /\ e.type = "AppEvent"
        /\ handle_app_event(e)
        /\ xfer_clock' = e.time
        /\ UNCHANGED xfer_sent
        /\ UNCHANGED notXfer

NextXfer ==
    \/ XferEmit
    \/ NetworkHandleNodeEvent
    \/ NetworkHandleAppEvent

SpecXfer == InitXfer /\ [][NextXfer]_vars

\* The event goes from a node to another.
Crosses(e) == e.transfer.some \/ e.peer_node_id.some

GeneratedEvent(g, time) ==
    [time |-> IF time > Duration THEN Duration + 1 ELSE time,
     type |-> "EprGenerated",
     data |-> [tx_node_id |-> g.tx, master_node_id |-> g.master,
               slave_node_id |-> g.slave]]

\* Network::initial on a network without applications: EprGenerator::handle
\* once for every generator, and ExperimentEnd as Simulation::run pushes it.
InitGen ==
    /\ \E qubits \in {q \in [SimEdges -> 1..NicSize] :
                        \A g, h \in SimEdges : q[g] - q[h] <= 1} :
          /\ nics_master = [n \in NodeIds |-> NicsOfRole(n, "Master", qubits)]
          /\ nics_slave = [n \in NodeIds |-> NicsOfRole(n, "Slave", qubits)]
    /\ \E first \in [SimEdges -> RandomDelays] :
          events = SetToBag(
              {GeneratedEvent(g, first[g]) : g \in SimEdges}
              \cup {[time |-> Duration, type |-> "ExperimentEnd", data |-> <<>>]})
    /\ clock = 0
    /\ epr_register = [epr_pairs |-> <<>>, last_epr_pair_id |-> 0]
    /\ pending_requests = [n \in NodeIds |-> <<>>]
    /\ client = [next_request_id |-> 0, pending |-> <<>>]
    /\ server = [pending |-> <<>>]
    /\ latency \in Delays
    /\ sim_status = "running"
    /\ RegFresh
    /\ NicIdle
    /\ TopoIdle
    /\ queue = <<>>
    /\ last_time = 0
    /\ run_last_time = 0
    /\ handling = NoEvent
    /\ run_status = "running"
    /\ overflow_checks = FALSE
    /\ RunIdle
    /\ PingIdle
    /\ FidIdle
    /\ EsIdle
    /\ XferIdle
    /\ MainIdle
    /\ DetIdle
    /\ ClientIdle
    /\ GridIdle
    /\ SchedIdle

\* A handle_epr_generated that arms the generator again only when the pair
\* was registered.
epr_generated_events_if_registered(e, fidelity_ok, pair_id, next_epr_generation) ==
    IF fidelity_ok
    THEN SetToBag(
            {[time |-> e.time, type |-> "EprNotified",
              data |-> [this_node_id |-> e.data.master_node_id,
                        peer_node_id |-> e.data.slave_node_id,
                        role |-> "Master", epr_pair_id |-> pair_id]],
             [time |-> e.time, type |-> "EprNotified",
              data |-> [this_node_id |-> e.data.slave_node_id,
                        peer_node_id |-> e.data.master_node_id,
                        role |-> "Slave", epr_pair_id |-> pair_id]],
             GeneratedEvent([tx |-> e.data.tx_node_id, master |-> e.data.master_node_id,
                             slave |-> e.data.slave_node_id],
                            e.time + next_epr_generation)})
    ELSE EmptyBag

\* The events Network::handle_epr_generated returns, at their absolute
\* times: the two notifications if PhysicalTopology::fidelity gave a value,
\* and in any case the next event of the generator.
epr_generated_events(e, fidelity_ok, pair_id, next_epr_generation) ==
    SetToBag(
        (IF fidelity_ok
         THEN {[time |-> e.time, type |-> "EprNotified",
                data |-> [this_node_id |-> e.data.master_node_id,
                          peer_node_id |-> e.data.slave_node_id,
                          role |-> "Master", epr_pair_id |-> pair_id]],
               [time |-> e.time, type |-> "EprNotified",
                data |-> [this_node_id |-> e.data.slave_node_id,
                          peer_node_id |-> e.data.master_node_id,
                          role |-> "Slave", epr_pair_id |-> pair_id]]}
         ELSE {})
        \cup {GeneratedEvent([tx |-> e.data.tx_node_id,
                              master |-> e.data.master_node_id,
                              slave |-> e.data.slave_node_id],
                             e.time + next_epr_generation)})

\* Network::handle_epr_generated, the fidelity look-up giving a value or an
\* error.
GenEprGenerated ==
    \E e \in BagToSet(events) : \E next_epr_generation \in RandomDelays :
        \E fidelity_ok \in BOOLEAN :
            /\ Popped(e, "EprGenerated")
            /\ epr_register.last_epr_pair_id < MaxGenerated
            /\ LET data == e.data
                   r == IF fidelity_ok
                        THEN new_epr_pair(epr_register.epr_pairs,
                                          epr_register.last_epr_pair_id,
                                          data.master_node_id, data.slave_node_id,
                                          e.time,
                                          FidelityOf(data.master_node_id,
                                                     data.slave_node_id))
                        ELSE [pairs |-> epr_register.epr_pairs,
                              last_id |-> epr_register.last_epr_pair_id,
                              ret |-> 0, panic |-> FALSE]
               IN /\ epr_register' = [epr_pairs |-> r.pairs, last_epr_pair_id |-> r.last_id]
                  /\ sim_status' = IF r.panic THEN "panic: duplicate pair id"
                                   ELSE "running"
                  /\ events' = (events (-) SetToBag({e}))
                        (+) epr_generated_events(e, fidelity_ok, r.ret,
                                                 next_epr_generation)
            /\ clock' = e.time
            /\ UNCHANGED <<nics_master, nics_slave, pending_requests, client, server,
                           latency>>
            /\ UNCHANGED notSim

NextGen ==
    \/ HandleExperimentEnd
    \/ GenEprGenerated
    \/ HandleEprNotified

SpecGen == InitGen /\ [][NextGen]_vars

\* Number of EprGenerated events of the generator of the edge in the queue.
PendingGenerated(g) ==
    LET mine == {e \in BagToSet(events) :
                    /\ e.type = "EprGenerated"
                    /\ e.data = [tx_node_id |-> g.tx, master_node_id |-> g.master,
                                 slave_node_id |-> g.slave]}
        RECURSIVE Sum(_)
        Sum(S) == IF S = {} THEN 0
                  ELSE LET x == CHOOSE y \in S : TRUE
                       IN CopiesIn(x, events) + Sum(S \ {x})
    IN Sum(mine)

\* C23: between two handled events, from the initial events on, the queue
\* holds exactly one EprGenerated event for every logical edge.
C23_OneGeneratedPerEdge ==
    sim_status \in {"running", "ended"} =>
        \A g \in SimEdges : PendingGenerated(g) = 1

\* The generators have fired up to ExperimentEnd, with a pair registered at
\* least once, one of them is armed for a time after the end, and each edge
\* has its one pending event.
C23_Witness ==
    /\ sim_status = "ended"
    /\ epr_register.last_epr_pair_id >= 1
    /\ \E e \in BagToSet(events) : e.type = "EprGenerated" /\ e.time > Duration
    /\ \A g \in SimEdges : PendingGenerated(g) = 1

\* ---------------------------------------------------------------------------
\* The two notifications of a new EPR pair (network.rs, node.rs)
\* ---------------------------------------------------------------------------

\* The network with one Client, started as in InitEs, without failures of
\* the remote entanglement swapping.
SpecNotify == InitEs /\ [][NextSim]_vars

\* The master-side and the slave-side EprNotified of one pair, both in the
\* queue with the same time.
BothNotified(m, sl) ==
    /\ m.type = "EprNotified"
    /\ sl.type = "EprNotified"
    /\ m.data.role = "Master"
    /\ sl.data.role = "Slave"
    /\ m.data.epr_pair_id = sl.data.epr_pair_id
    /\ m.time = sl.time

\* C24: when the master-side and the slave-side EprNotified of a pair are
\* both to be handled, handling the master's first and the slave's next
\* gives the same Nics, pending requests, run status and pushed events as
\* handling them the other way round.
C24_NotifiedCommute ==
    sim_status = "running" =>
        \A m, sl \in BagToSet(events) :
            BothNotified(m, sl) =>
                epr_notified(epr_notified(NetworkState, m.time, m.data),
                             sl.time, sl.data)
                    = epr_notified(epr_notified(NetworkState, sl.time, sl.data),
                                   m.time, m.data)

\* Both notifications are in the queue while a request is Queued at the
\* master: handling the master's one stores the pair and sends an EsRequest,
\* handling the slave's one stores the pair at the slave.
C24_Witness ==
    /\ sim_status = "running"
    /\ \E m, sl \in BagToSet(events) :
          /\ BothNotified(m, sl)
          /\ epr_notified(NetworkState, m.time, m.data).emitted # EmptyBag
          /\ epr_notified(NetworkState, sl.time, sl.data).nics_slave # nics_slave

\* ---------------------------------------------------------------------------
\* The worker pool (bin/main.rs)
\* ---------------------------------------------------------------------------

\* What happens to the replication of a seed: Simulation::new gives an error,
\* or the simulation runs to its output, or it panics.
Outcomes == {"ok", "err", "panic"}

\* main up to the spawning of the workers: one configuration per seed of
\* seed_init..seed_end, min(concurrency, seeds) workers, and the sender kept
\* by main dropped.
InitMain ==
    /\ \E seeds \in 1..MaxSeeds, concurrency \in 1..MaxConcurrency :
          /\ configurations = [i \in 1..seeds |-> i - 1]
          /\ seed_outcome \in [0..(seeds - 1) -> Outcomes]
          /\ worker_pc = [i \in 1..(IF concurrency < seeds THEN concurrency
                                    ELSE seeds) |-> "pop"]
          /\ worker_config = [i \in 1..(IF concurrency < seeds THEN concurrency
                                        ELSE seeds) |-> None]
    /\ channel = <<>>
    /\ outputs = <<>>
    /\ main_pc = "recv"
    /\ queue = <<>>
    /\ last_time = 0
    /\ run_last_time = 0
    /\ handling = NoEvent
    /\ run_status = "running"
    /\ overflow_checks = FALSE
    /\ NicIdle
    /\ RegFresh
    /\ TopoIdle
    /\ SimIdle
    /\ RunIdle
    /\ PingIdle
    /\ FidIdle
    /\ EsIdle
    /\ XferIdle
    /\ DetIdle
    /\ ClientIdle
    /\ GridIdle
    /\ SchedIdle

\* A worker takes the last configuration of the list, or breaks out of its
\* loop when there is none; its sender is dropped with the task.
WorkerPop ==
    \E i \in DOMAIN worker_pc :
        /\ worker_pc[i] = "pop"
        /\ IF configurations # <<>>
           THEN /\ worker_config' =
                      [worker_config EXCEPT ![i] = Some(configurations[Len(configurations)])]
                /\ configurations' = SubSeq(configurations, 1, Len(configurations) - 1)
                /\ worker_pc' = [worker_pc EXCEPT ![i] = "simulate"]
           ELSE /\ worker_pc' = [worker_pc EXCEPT ![i] = "terminated"]
                /\ UNCHANGED <<configurations, worker_config>>
        /\ UNCHANGED <<seed_outcome, channel, outputs, main_pc>>
        /\ UNCHANGED notMain

\* Where the task of a worker is after Simulation::new and run: an error of
\* Simulation::new is logged and the loop goes on, an output is sent and the
\* loop goes on, a panic unwinds the task.
worker_after(outcome) == IF outcome = "panic" THEN "panicked" ELSE "pop"

\* A worker runs the replication of the configuration it holds.
WorkerSimulate ==
    \E i \in DOMAIN worker_pc :
        /\ worker_pc[i] = "simulate"
        /\ LET seed == worker_config[i].value
           IN /\ channel' = IF seed_outcome[seed] = "ok"
                            THEN Append(channel, seed) ELSE channel
              /\ worker_pc' = [worker_pc EXCEPT ![i] = worker_after(seed_outcome[seed])]
        /\ worker_config' = [worker_config EXCEPT ![i] = None]
        /\ UNCHANGED <<configurations, seed_outcome, outputs, main_pc>>
        /\ UNCHANGED notMain

\* rx.recv().await in main: an output of the channel, or None once the
\* channel is empty and every sender has been dropped.
MainRecv ==
    /\ main_pc = "recv"
    /\ IF channel # <<>>
       THEN /\ outputs' = Append(outputs, Head(channel))
            /\ channel' = Tail(channel)
            /\ UNCHANGED main_pc
       ELSE /\ \A i \in DOMAIN worker_pc : worker_pc[i] \in {"terminated", "panicked"}
            /\ main_pc' = "save_outputs"
            /\ UNCHANGED <<channel, outputs>>
    /\ UNCHANGED <<configurations, seed_outcome, worker_pc, worker_config>>
    /\ UNCHANGED notMain

NextMain ==
    \/ WorkerPop
    \/ WorkerSimulate
    \/ MainRecv

SpecMain == InitMain /\ [][NextMain]_vars

\* C25: when main has left its receiving loop, the output of every seed
\* whose replication does not crash has been collected, whatever the number
\* of workers and whichever replications panic.
C25_RemainingSeedsCollected ==
    main_pc = "save_outputs" =>
        \A seed \in DOMAIN seed_outcome :
            seed_outcome[seed] = "ok" =>
                \E k \in 1..Len(outputs) : outputs[k] = seed

\* C26: once create_applications has returned, every pair of applications
\* has its source and its destination on two different nodes, both of them
\* ground stations (OGS) of the physical topology.
C26_ApplicationsOnOgs ==
    run_pc \in {"initial", "loop"} =>
        \A i \in DOMAIN applications :
            /\ applications[i][1] # applications[i][2]
            /\ applications[i][1] \in ogs_indices
            /\ applications[i][2] \in ogs_indices

\* ------------------------------------------------------------ replications
\* Two replications of one configuration and one seed. The seed fixes what
\* every random generator yields; it does not fix the order in which
\* Network::initial walks the std HashMap epr_generators, whose hasher is
\* keyed afresh in every process. The event queue is the BinaryHeap of the
\* standard library, a deterministic function of the pushes and pops.
Runs == {"a", "b"}

\* The keys of epr_generators: two transmitters with one generator each.
DetTx == {0, 1}

\* The experiment lasts DetDuration ns; inter-generation times, in ns.
DetDuration == 100
DetDelays == {30, 50}

\* The number of samples of each generator that the seed is let to choose.
MaxSamples == 2

\* The k-th value of the generator's rng; values past the bound fall after
\* the end of the experiment.
det_sample(tx, k) ==
    IF k <= MaxSamples THEN det_samples[tx][k] ELSE DetDuration + 1

DetEvent(time, type, data) == [time |-> time, type |-> type, data |-> data]

\* impl Ord for Event: a <= b iff the time of b is not after the time of a.
EventLe(a, b) == b.time <= a.time

Swap(data, i, j) == [data EXCEPT ![i] = data[j], ![j] = data[i]]

\* BinaryHeap::sift_up(0, pos), positions counted from 1.
RECURSIVE sift_up(_, _)
sift_up(data, pos) ==
    IF pos <= 1
    THEN data
    ELSE LET parent == pos \div 2
         IN IF EventLe(data[pos], data[parent])
            THEN data
            ELSE sift_up(Swap(data, pos, parent), parent)

\* BinaryHeap::sift_down_to_bottom(pos): go down along the greater child to
\* the bottom, then sift up.
RECURSIVE sift_down_to_bottom(_, _)
sift_down_to_bottom(data, pos) ==
    LET end == Len(data)
        child == 2 * pos
    IN IF child <= end - 1
       THEN LET c == IF EventLe(data[child], data[child + 1])
                     THEN child + 1 ELSE child
            IN sift_down_to_bottom(Swap(data, pos, c), c)
       ELSE IF child = end
            THEN sift_up(Swap(data, pos, child), child)
            ELSE sift_up(data, pos)

\* BinaryHeap::push.
heap_push(data, event) == sift_up(Append(data, event), Len(data) + 1)

\* BinaryHeap::pop of a heap that is not empty.
heap_pop(data) ==
    LET last == data[Len(data)]
        rest == SubSeq(data, 1, Len(data) - 1)
    IN IF rest = <<>>
       THEN [item |-> last, data |-> <<>>]
       ELSE [item |-> data[1],
             data |-> sift_down_to_bottom([rest EXCEPT ![1] = last], 1)]

\* Simulation::update: push the events in the order of the vector, each
\* stamped with now + its delay.
RECURSIVE det_update(_, _, _)
det_update(data, now, new_events) ==
    IF new_events = <<>>
    THEN data
    ELSE LET e == Head(new_events)
         IN det_update(heap_push(data, DetEvent(now + e.time, e.type, e.data)),
                       now, Tail(new_events))

\* EprGenerator::handle of the generator of tx, drawing its k-th sample.
det_generator_handle(tx, k) == DetEvent(det_sample(tx, k), "EprGenerated", [tx |-> tx])

\* The heap when the main loop starts: WarmupPeriodEnd, ExperimentEnd,
\* Progress(0), then the events of Network::initial in the order in which
\* the hash map is walked.
det_initial(order) ==
    det_update(<<>>, 0,
               <<DetEvent(0, "WarmupPeriodEnd", <<>>),
                 DetEvent(DetDuration, "ExperimentEnd", <<>>),
                 DetEvent(0, "Progress", 0)>>
               \o [i \in 1..Len(order) |-> det_generator_handle(order[i], 1)])

\* The orders in which a hash map with the keys DetTx can be walked.
DetOrders == {o \in [1..Cardinality(DetTx) -> DetTx] : \A i, j \in DOMAIN o : o[i] = o[j] => i = j}

InitDet ==
    /\ det_samples \in [DetTx -> [1..MaxSamples -> DetDelays]]
    /\ \E order \in [Runs -> DetOrders] :
          det_heap = [r \in Runs |-> det_initial(order[r])]
    /\ det_last_id = [r \in Runs |-> 0]
    /\ det_drawn = [r \in Runs |-> [tx \in DetTx |-> 1]]
    /\ det_handled = [r \in Runs |-> <<>>]
    /\ det_status = [r \in Runs |-> "running"]
    /\ queue = <<>>
    /\ last_time = 0
    /\ run_last_time = 0
    /\ handling = NoEvent
    /\ run_status = "running"
    /\ overflow_checks = FALSE
    /\ NicIdle
    /\ RegFresh
    /\ TopoIdle
    /\ SimIdle
    /\ RunIdle
    /\ PingIdle
    /\ FidIdle
    /\ EsIdle
    /\ XferIdle
    /\ MainIdle
    /\ ClientIdle
    /\ GridIdle
    /\ SchedIdle

\* The events a handler returns, with their delays, for the popped event.
det_new_events(r, event) ==
    CASE event.type = "Progress" ->
            <<DetEvent(DetDuration \div 100, "Progress", event.data + 1)>>
      [] event.type = "EprGenerated" ->
            <<DetEvent(0, "EprNotified",
                       [tx |-> event.data.tx, role |-> "Master",
                        epr_pair_id |-> det_last_id[r]]),
              DetEvent(0, "EprNotified",
                       [tx |-> event.data.tx, role |-> "Slave",
                        epr_pair_id |-> det_last_id[r]]),
              det_generator_handle(event.data.tx, det_drawn[r][event.data.tx] + 1)>>
      [] OTHER -> <<>>

\* One turn of the main loop of replication r: pop, handle, update. The two
\* replications take turns, the one that has handled fewer events first.
DetLoop(r) ==
    /\ det_status[r] = "running"
    /\ \A o \in Runs : det_status[o] = "running" => Len(det_handled[r]) <= Len(det_handled[o])
    /\ LET popped == heap_pop(det_heap[r])
           event == popped.item
       IN /\ det_handled' = [det_handled EXCEPT ![r] = Append(@, event)]
          /\ IF event.type = "ExperimentEnd"
             THEN /\ det_status' = [det_status EXCEPT ![r] = "ended"]
                  /\ det_heap' = [det_heap EXCEPT ![r] = popped.data]
                  /\ UNCHANGED <<det_last_id, det_drawn>>
             ELSE /\ det_heap' = [det_heap EXCEPT ![r] =
                        det_update(popped.data, event.time, det_new_events(r, event))]
                  /\ det_last_id' =
                        IF event.type = "EprGenerated"
                        THEN [det_last_id EXCEPT ![r] = @ + 1]
                        ELSE det_last_id
                  /\ det_drawn' =
                        IF event.type = "EprGenerated"
                        THEN [det_drawn EXCEPT ![r][event.data.tx] = @ + 1]
                        ELSE det_drawn
                  /\ UNCHANGED det_status
    /\ UNCHANGED det_samples
    /\ UNCHANGED notDet

NextDet == \E r \in Runs : DetLoop(r)

SpecDet == InitDet /\ [][NextDet]_vars

\* The events are handled in the order of their times.
DetInTimeOrder ==
    \A r \in Runs : \A i, j \in DOMAIN det_handled[r] :
        i <= j => det_handled[r][i].time <= det_handled[r][j].time

\* C27: two replications with the same configuration and seed handle the
\* same sequence of events: at every point the events one of them has
\* handled are the first events the other has handled, and two finished
\* replications have handled the same sequence.
C27_SameSeedSameEvents ==
    \A r, o \in Runs :
        Len(det_handled[r]) <= Len(det_handled[o]) =>
            /\ det_handled[r] = SubSeq(det_handled[o], 1, Len(det_handled[r]))
            /\ (det_status[r] = "ended" /\ det_status[o] = "ended"
                    => det_handled[r] = det_handled[o])


\* ------------------------------------------------------------ client
\* A Client on its own, as in test_client: the events reach it in any order
\* and for any request id, at times that do not decrease.
MaxClientRequests == 2
MaxClientNow == 2

ClientIds == 0..MaxClientRequests

\* The EprRequest a Client keeps for a pending request.
ClientRequest(now) ==
    [memory_cell |-> None, local_operations_done |-> FALSE,
     remote_operations_done |-> FALSE, created |-> now]

\* Variant of remove_request that returns no sample.
remove_request_unsampled(pending, now, request_id) ==
    [pending |-> MapRemove(pending, request_id), samples |-> <<>>]

\* Client::remove_request: drop the entry and return its latency sample, if
\* the entry exists.
remove_request(pending, now, request_id) ==
    IF request_id \in DOMAIN pending
    THEN [pending |-> MapRemove(pending, request_id),
          samples |-> <<[request_id |-> request_id,
                         value |-> to_seconds(now - pending[request_id].created)]>>]
    ELSE [pending |-> pending, samples |-> <<>>]

InitClient ==
    /\ cl_pending = <<>>
    /\ cl_next_id = 0
    /\ cl_now = 0
    /\ cl_latency = <<>>
    /\ cl_done = [id \in ClientIds |->
                     [local |-> FALSE, remote |-> FALSE, last |-> "none", created |-> 0]]
    /\ cl_status = "running"
    /\ queue = <<>>
    /\ last_time = 0
    /\ run_last_time = 0
    /\ handling = NoEvent
    /\ run_status = "running"
    /\ overflow_checks = FALSE
    /\ NicIdle
    /\ RegFresh
    /\ TopoIdle
    /\ SimIdle
    /\ RunIdle
    /\ PingIdle
    /\ FidIdle
    /\ EsIdle
    /\ XferIdle
    /\ MainIdle
    /\ DetIdle
    /\ GridIdle
    /\ SchedIdle

\* The times an event handled next may carry.
ClientTimes == cl_now..MaxClientNow

\* Client::handle_epr_request: a new pending request, created now.
ClEprRequest ==
    \E now \in ClientTimes :
        /\ cl_status = "running"
        /\ cl_next_id < MaxClientRequests
        /\ cl_pending' = MapInsert(cl_pending, cl_next_id, ClientRequest(now))
        /\ cl_done' = [cl_done EXCEPT ![cl_next_id].created = now]
        /\ cl_next_id' = cl_next_id + 1
        /\ cl_now' = now
        /\ UNCHANGED <<cl_latency, cl_status>>
        /\ UNCHANGED notClient

\* Client::handle_epr_response: keep the memory cell of a successful
\* request, drop a failed one.
ClEprResponse ==
    \E now \in ClientTimes, id \in ClientIds, memory_cell \in {None, Some(0)} :
        /\ cl_status = "running"
        /\ cl_now' = now
        /\ IF id \notin DOMAIN cl_pending
           THEN /\ cl_status' = "panic: non-existing pending request"
                /\ UNCHANGED cl_pending
           ELSE IF cl_pending[id].memory_cell.some
           THEN /\ cl_status' = "panic: duplicate response received"
                /\ UNCHANGED cl_pending
           ELSE /\ cl_pending' =
                      IF memory_cell.some
                      THEN [cl_pending EXCEPT ![id].memory_cell = memory_cell]
                      ELSE MapRemove(cl_pending, id)
                /\ UNCHANGED cl_status
        /\ UNCHANGED <<cl_next_id, cl_latency, cl_done>>
        /\ UNCHANGED notClient

\* Client::handle_local_complete for the request id at time now.
ClLocalCompleteOf(now, id) ==
    /\ cl_status = "running"
    /\ cl_now' = now
    /\ IF id \notin DOMAIN cl_pending
       THEN /\ cl_status' = "panic: non-existing pending request"
            /\ UNCHANGED <<cl_pending, cl_latency, cl_done>>
       ELSE IF cl_pending[id].local_operations_done
       THEN /\ cl_status' = "panic: duplicate execution of local operations"
            /\ UNCHANGED <<cl_pending, cl_latency, cl_done>>
       ELSE IF ~cl_pending[id].memory_cell.some
       THEN /\ cl_status' = "panic: local operation completed on a failed request"
            /\ cl_pending' = [cl_pending EXCEPT ![id].local_operations_done = TRUE]
            /\ UNCHANGED <<cl_latency, cl_done>>
       ELSE LET request == [cl_pending[id] EXCEPT !.local_operations_done = TRUE,
                                                  !.memory_cell = None]
                pending == [cl_pending EXCEPT ![id] = request]
                removed == remove_request(pending, now, id)
            IN /\ cl_pending' = IF request.remote_operations_done
                                THEN removed.pending ELSE pending
               /\ cl_latency' = IF request.remote_operations_done
                                THEN cl_latency \o removed.samples ELSE cl_latency
               /\ cl_done' = [cl_done EXCEPT ![id].local = TRUE, ![id].last = "local"]
               /\ UNCHANGED cl_status
    /\ UNCHANGED cl_next_id
    /\ UNCHANGED notClient

ClLocalComplete == \E now \in ClientTimes, id \in ClientIds : ClLocalCompleteOf(now, id)

\* Client::handle_remote_complete for the request id at time now.
ClRemoteCompleteOf(now, id) ==
    /\ cl_status = "running"
    /\ cl_now' = now
    /\ IF id \notin DOMAIN cl_pending
       THEN /\ cl_status' = "panic: non-existing pending request"
            /\ UNCHANGED <<cl_pending, cl_latency, cl_done>>
       ELSE IF cl_pending[id].remote_operations_done
       THEN /\ cl_status' = "panic: duplicate execution of remote operations"
            /\ UNCHANGED <<cl_pending, cl_latency, cl_done>>
       ELSE LET request == [cl_pending[id] EXCEPT !.remote_operations_done = TRUE]
                pending == [cl_pending EXCEPT ![id] = request]
                removed == remove_request(pending, now, id)
            IN /\ cl_pending' = IF request.local_operations_done
                                THEN removed.pending ELSE pending
               /\ cl_latency' = IF request.local_operations_done
                                THEN cl_latency \o removed.samples ELSE cl_latency
               /\ cl_done' = [cl_done EXCEPT ![id].remote = TRUE, ![id].last = "remote"]
               /\ UNCHANGED cl_status
    /\ UNCHANGED cl_next_id
    /\ UNCHANGED notClient

ClRemoteComplete == \E now \in ClientTimes, id \in ClientIds : ClRemoteCompleteOf(now, id)

NextClient ==
    \/ ClEprRequest
    \/ ClEprResponse
    \/ ClLocalComplete
    \/ ClRemoteComplete

SpecClient == InitClient /\ [][NextClient]_vars

\* The latency samples returned for the request.
LatencySamples(samples, id) == {k \in DOMAIN samples : samples[k].request_id = id}

\* Both completions of the request have been handled.
BothComplete(done, id) == done[id].local /\ done[id].remote

\* C28: a request has one latency sample and no pending entry once both its
\* LocalComplete and its RemoteComplete have been handled, and no sample
\* before; the completion that is handled second, whichever it is, removes
\* the entry and returns the sample now - created >= 0, the first one keeps
\* the entry; a LocalComplete or RemoteComplete that is a duplicate, or whose
\* request is not pending, ends the replication with a panic.
C28_RemovedWhenBothComplete ==
    /\ [](\A id \in ClientIds :
            /\ Cardinality(LatencySamples(cl_latency, id))
                  = IF BothComplete(cl_done, id) THEN 1 ELSE 0
            /\ BothComplete(cl_done, id) => id \notin DOMAIN cl_pending
            /\ \A k \in LatencySamples(cl_latency, id) : cl_latency[k].value >= 0)
    /\ [][\A id \in ClientIds :
            (ClLocalCompleteOf(cl_now', id) \/ ClRemoteCompleteOf(cl_now', id)) =>
                IF cl_status' = "running"
                THEN /\ id \in DOMAIN cl_pending
                     /\ (id \notin DOMAIN cl_pending') = BothComplete(cl_done', id)
                     /\ cl_latency' =
                           IF BothComplete(cl_done', id)
                           THEN Append(cl_latency,
                                       [request_id |-> id,
                                        value |-> to_seconds(cl_now' - cl_done[id].created)])
                           ELSE cl_latency
                ELSE UNCHANGED <<cl_latency, cl_done>>]_vars
    /\ [][\A id \in ClientIds :
            /\ (ClLocalCompleteOf(cl_now', id)
                   /\ (id \notin DOMAIN cl_pending \/ cl_done[id].local))
                  => cl_status' # "running"
            /\ (ClRemoteCompleteOf(cl_now', id)
                   /\ (id \notin DOMAIN cl_pending \/ cl_done[id].remote))
                  => cl_status' # "running"]_vars

\* Two requests are complete, one whose LocalComplete came last and one whose
\* RemoteComplete came last, each with its sample, one of them positive.
C28_Witness ==
    \E i, j \in ClientIds :
        /\ BothComplete(cl_done, i) /\ cl_done[i].last = "local"
        /\ BothComplete(cl_done, j) /\ cl_done[j].last = "remote"
        /\ Len(cl_latency) = 2
        /\ \E k \in DOMAIN cl_latency : cl_latency[k].value > 0
        /\ cl_pending = <<>>


\* ------------------------------------------------------------ scheduler
\* The requests of the node toward the peer that are Queued.
QueuedToward(n, p) ==
    {i \in DOMAIN pending_requests[n][p] : pending_requests[n][p][i].status = Queued}

\* The Valid cells of the master Nic of the node toward the peer.
ValidToward(n, p) ==
    {i \in DOMAIN nics_master[n][p] : is_valid(nics_master[n][p][i])}

C30_PushNeverWraps ==
    /\ run_status # "panic_add_overflow"
    /\ \A i \in DOMAIN queue :
          /\ queue[i].time = queue[i].pushed_at + queue[i].delay
          /\ queue[i].time >= queue[i].pushed_at
    /\ handling.kind # "none" =>
          /\ handling.time = handling.pushed_at + handling.delay
          /\ handling.time >= handling.pushed_at


\* ------------------------------------------------------------ pair consume
\* C31: a consume whose node_id, any 32-bit value, is not an endpoint of the
\* pair that still holds its half returns None and leaves the register as it
\* was.
C31_ConsumeOnlyByHolder ==
    (reg_call.op = "consume" /\ reg_call.id \in DOMAIN reg_prev) =>
        (reg_call.node \notin Endpoints(reg_call.id) \ consumed_prev[reg_call.id]
            => reg_ret = None /\ epr_pairs = reg_prev)


\* ------------------------------------------------------------ grid
\* The largest grid built: orbits and satellites per orbit.
MaxOrbits == 3
MaxOrbitLength == 4

\* The satellites linked to the satellite j of the orbit i: right, left, up
\* (but for the first orbit) and down (but for the last); a HashSet.
orbit_others(num_orbits, orbit_length, i, j) ==
    LET ndx == j + i * orbit_length
    IN {i * orbit_length + ((j + 1) % orbit_length),
        i * orbit_length + ((orbit_length + j - 1) % orbit_length)}
       \cup (IF i # 0 THEN {ndx - orbit_length} ELSE {})
       \cup (IF i # num_orbits - 1 THEN {ndx + orbit_length} ELSE {})

\* The satellites linked to the station j of the band i: two of the orbit
\* above (but for the first band) and two of the orbit below (but for the
\* last); a HashSet.
ground_sats(num_orbits, orbit_length, i, j) ==
    (IF i # 0
     THEN {(i - 1) * orbit_length + j,
           (i - 1) * orbit_length + ((orbit_length + j - 1) % orbit_length)}
     ELSE {})
    \cup (IF i # num_orbits
          THEN {i * orbit_length + j,
                i * orbit_length + ((orbit_length + j - 1) % orbit_length)}
          ELSE {})

\* The inner loop over the set of neighbours: an edge is added unless
\* contains_edge finds one between the two nodes.
add_edges(edges, ndx, others) ==
    edges (+) SetToBag({{ndx, other} : other \in {o \in others : ~BagIn({ndx, o}, edges)}})

InitGrid ==
    /\ grid_params \in [num_orbits : 1..MaxOrbits, orbit_length : 1..MaxOrbitLength]
    /\ grid_edges = EmptyBag
    /\ grid_pc = "orbit"
    /\ grid_ndx = 0
    /\ queue = <<>>
    /\ last_time = 0
    /\ run_last_time = 0
    /\ handling = NoEvent
    /\ run_status = "running"
    /\ overflow_checks = FALSE
    /\ NicIdle
    /\ RegFresh
    /\ TopoIdle
    /\ SimIdle
    /\ RunIdle
    /\ PingIdle
    /\ FidIdle
    /\ EsIdle
    /\ XferIdle
    /\ MainIdle
    /\ DetIdle
    /\ ClientIdle
    /\ SchedIdle

GridNumSat == grid_params.orbit_length * grid_params.num_orbits

\* One turn of the loops that add the orbit-to-orbit edges.
GridOrbitEdges ==
    /\ grid_pc = "orbit"
    /\ LET i == grid_ndx \div grid_params.orbit_length
           j == grid_ndx % grid_params.orbit_length
       IN grid_edges' = add_edges(grid_edges, grid_ndx,
                           orbit_others(grid_params.num_orbits,
                                        grid_params.orbit_length, i, j))
    /\ IF grid_ndx + 1 < GridNumSat
       THEN grid_ndx' = grid_ndx + 1 /\ UNCHANGED grid_pc
       ELSE grid_ndx' = 0 /\ grid_pc' = "ground"
    /\ UNCHANGED grid_params
    /\ UNCHANGED notGrid

\* One turn of the loops that add the ground-to-orbit edges.
GridGroundEdges ==
    /\ grid_pc = "ground"
    /\ LET i == grid_ndx \div grid_params.orbit_length
           j == grid_ndx % grid_params.orbit_length
       IN grid_edges' = add_edges(grid_edges, GridNumSat + grid_ndx,
                           ground_sats(grid_params.num_orbits,
                                       grid_params.orbit_length, i, j))
    /\ IF grid_ndx + 1 < grid_params.orbit_length * (1 + grid_params.num_orbits)
       THEN grid_ndx' = grid_ndx + 1 /\ UNCHANGED grid_pc
       ELSE grid_ndx' = 0 /\ grid_pc' = "done"
    /\ UNCHANGED grid_params
    /\ UNCHANGED notGrid

NextGrid == GridOrbitEdges \/ GridGroundEdges

SpecGrid == InitGrid /\ [][NextGrid]_vars

\* C32: at every point of the construction of a grid with at least one orbit
\* and one satellite per orbit, every edge joins two distinct nodes and no
\* two edges join the same two nodes.
C32_SimpleGraph ==
    \A e \in BagToSet(grid_edges) :
        /\ Cardinality(e) = 2
        /\ CopiesIn(e, grid_edges) = 1

\* The part of the statement on parallel edges.
GridNoParallelEdges == \A e \in BagToSet(grid_edges) : CopiesIn(e, grid_edges) = 1

\* ------------------------------------------------------------ residual memory
\* The construction under the assumption that its loops keep running.
SpecTopoLive == InitTopo /\ [][NextTopo]_vars /\ WF_vars(NextTopo)

\* No edge of the logical graph has a memory qubit left at both ends.
NoEdgeWithResidual ==
    \A e \in logical_graph :
        residual[e.master].memory_qubits <= 0 \/ residual[e.slave].memory_qubits <= 0

\* C33: the distribution of the residual memory qubits ends, and once it has
\* ended no edge of the logical graph has a memory qubit left at both of its
\* ends.
C33_DistributionEnds ==
    /\ [](topo_pc \in {"capacity", "ok"} => NoEdgeWithResidual)
    /\ (topo_pc = "distribute" ~> topo_pc = "capacity")

\* The distribution has ended after it gave an edge a second qubit, and a
\* node still has a qubit left.
C33_Witness ==
    /\ topo_pc = "capacity"
    /\ \E e \in logical_graph : e.memory_qubits >= 2
    /\ \E n \in DOMAIN residual : residual[n].memory_qubits > 0


\* ------------------------------------------------------------ end of run
\* A duration of one nanosecond, in quarters of a nanosecond.
ShortDuration == 4

\* Stand-ins for 2^16, the width of the percentage of Progress, and for
\* 2^31, the width of the counter num_events of run.
PercentModulus == 64
EventsModulus == 128

\* The configurations the end of the run is explored from: the duration of
\* the other specifications and a short one.
LiveConfigs ==
    {[c EXCEPT !.duration = d] :
        c \in {x \in Configs : x.warmup_period = 0 /\ x.series_ignore = {}},
        d \in {ShortDuration, RunDuration}}

InitRunLive ==
    /\ \E setup \in RunSetups :
          /\ network = setup.network
          /\ applications = setup.applications
          /\ config \in {c \in LiveConfigs : c.source_dest_pairs = setup.source_dest_pairs}
          /\ \E delays \in [network.epr_generators -> FirstDelays] :
                run_events = initial_events(config, network, applications, delays)
          /\ logical_topology_found =
                IF Cardinality(network.epr_generators) + Len(applications) = 0
                THEN 0 ELSE 1
    /\ run_pc = "loop"
    /\ run_clock = 0
    /\ num_events = 0
    /\ single = [enabled |-> FALSE, one_time |-> <<>>]
    /\ series = [enabled |-> FALSE,
                 series |-> [name \in SeriesNames \ config.series_ignore |-> <<>>]]
    /\ TopoIdle
    /\ SimIdle
    /\ RegFresh
    /\ NicIdle
    /\ queue = <<>>
    /\ last_time = 0
    /\ run_last_time = 0
    /\ handling = NoEvent
    /\ run_status = "running"
    /\ overflow_checks \in BOOLEAN
    /\ PingIdle
    /\ FidIdle
    /\ EsIdle
    /\ XferIdle
    /\ MainIdle
    /\ DetIdle
    /\ ClientIdle
    /\ GridIdle
    /\ SchedIdle

\* Progress(percentage) with the widths of its integers: `percentage + 1` on
\* u16 and `num_events += 1` wrap in a build without overflow checks and
\* panic in a build with them.
RunProgressWidth ==
    \E e \in BagToSet(run_events) :
        /\ RunPopped(e, "Progress")
        /\ run_clock' = e.time
        /\ IF overflow_checks /\ (num_events + 1 >= EventsModulus
                                  \/ e.data + 1 >= PercentModulus)
           THEN /\ run_pc' = "panic: attempt to add with overflow"
                /\ UNCHANGED <<run_events, num_events>>
           ELSE /\ run_events' =
                      (run_events (-) SetToBag({e}))
                      (+) SetToBag({RunEvent(e.time + round(config.duration, 4 * 100),
                                             "Progress", (e.data + 1) % PercentModulus)})
                /\ num_events' = (num_events + 1) % EventsModulus
                /\ UNCHANGED run_pc
        /\ UNCHANGED <<config, network, applications, logical_topology_found,
                       single, series>>
        /\ UNCHANGED notRun

NextRunLive ==
    \/ RunWarmupPeriodEnd
    \/ RunProgressWidth
    \/ RunNetworkEvent
    \/ RunExperimentEnd

\* The main loop never stops of its own: it takes a turn whenever it can.
SpecRunLive == InitRunLive /\ [][NextRunLive]_vars /\ WF_vars(NextRunLive)

\* C34: the event queue is not empty while the main loop runs, and the loop
\* eventually pops ExperimentEnd and run returns.
C34_ReachesExperimentEnd ==
    /\ [](run_pc = "loop" => run_events # EmptyBag)
    /\ <>(run_pc = "returned")

\* ------------------------------------------------------------ es failure
\* The step handles the EsFailure event e.
PopsEsFailure(e) ==
    /\ Popped(e, "EsFailure")
    /\ CopiesIn(e, events') < CopiesIn(e, events)

\* The requests of the node toward the peer that wait for a response on the
\* cell.
WaitingOn(pending, n, p, local_pair_id) ==
    {i \in DOMAIN pending[n][p] :
        pending[n][p][i].status = WaitingForResponse(MemoryCellId(p, "Master", local_pair_id))}

\* C35: when the master node has handled the EsFailure of the slave for a
\* request, the request no longer waits for a response on the cell the
\* EsRequest named and that cell of the master Nic is no longer locked.
C35_FailureReleasesRequest ==
    [][\A e \in BagToSet(events) :
          PopsEsFailure(e) =>
              LET n == e.data.prev_hop
                  p == e.data.next_hop
                  id == e.data.local_pair_id
              IN /\ WaitingOn(pending_requests', n, p, id) = {}
                 /\ \A i \in DOMAIN nics_master'[n][p] :
                       ~(/\ is_used(nics_master'[n][p][i])
                         /\ nics_master'[n][p][i].local_pair_id = id)]_vars

\* ------------------------------------------------------------ arrival order
\* One source node (0) and one peer (1): the requests of the node toward the
\* peer and its master Nic, driven by the handlers that touch them.
\* Largest number of requests the node receives in SpecSched.
MaxSchedRequests == 3
\* Largest number of EPR pairs established in SpecSched.
MaxSchedPairs == 3

InitSched ==
    /\ sq_requests = <<>>
    /\ sq_cells \in {NicNew(n) : n \in 1..NicSize}
    /\ sq_next_request = 0
    /\ sq_next_pair = 0
    /\ sq_answered = {}
    /\ sq_requeued = {}
    /\ queue = <<>>
    /\ last_time = 0
    /\ run_last_time = 0
    /\ handling = NoEvent
    /\ run_status = "running"
    /\ overflow_checks = FALSE
    /\ NicIdle
    /\ RegFresh
    /\ TopoIdle
    /\ SimIdle
    /\ RunIdle
    /\ PingIdle
    /\ FidIdle
    /\ EsIdle
    /\ XferIdle
    /\ MainIdle
    /\ DetIdle
    /\ ClientIdle
    /\ GridIdle

\* Node::handle_epr_request_app: the request is appended as Queued and the
\* scheduler runs.
SchedEprRequestApp ==
    /\ sq_next_request < MaxSchedRequests
    /\ LET queued == Append(sq_requests,
                        [received |-> sq_next_pair,
                         epr |-> EprFiveTuple(0, 1, sq_next_request),
                         status |-> Queued, path |-> <<0, 1>>])
           s == schedule_from(0, 1, sq_cells, queued, 1)
       IN /\ sq_requests' = s.requests
          /\ sq_cells' = s.cells
    /\ sq_next_request' = sq_next_request + 1
    /\ UNCHANGED <<sq_next_pair, sq_answered, sq_requeued>>
    /\ UNCHANGED notSched

\* Node::epr_established as the master: the pair is stored and the scheduler
\* runs.
SchedEprEstablished ==
    /\ sq_next_pair < MaxSchedPairs
    /\ LET stored == add_epr_pair(sq_cells, sq_next_pair, sq_next_pair)
           s == schedule_from(0, 1, stored.cells, sq_requests, 1)
       IN /\ sq_requests' = s.requests
          /\ sq_cells' = s.cells
    /\ sq_next_pair' = sq_next_pair + 1
    /\ UNCHANGED <<sq_next_request, sq_answered, sq_requeued>>
    /\ UNCHANGED notSched

\* Node::handle_es_remote_complete for a request that waits for its
\* response: the request is taken out of the vector with swap_remove and
\* its cell is handed to the application in an EprResponse.
SchedEsRemoteComplete ==
    /\ \E i \in DOMAIN sq_requests :
          /\ sq_requests[i].status.state = "WaitingForResponse"
          /\ sq_requests' = swap_remove(sq_requests, position(sq_requests, sq_requests[i].epr))
          /\ sq_answered' = sq_answered \cup {sq_requests[i].status.memory_cell.local_pair_id}
    /\ UNCHANGED <<sq_cells, sq_next_request, sq_next_pair, sq_requeued>>
    /\ UNCHANGED notSched

\* Client::handle_local_complete and Network::handle_epr_fidelity: the
\* application measures the pair of a cell it was handed, Node::consume
\* makes the cell Empty.
SchedConsume ==
    /\ \E id \in sq_answered :
          /\ sq_cells' = consume(sq_cells, id).cells
          /\ sq_answered' = sq_answered \ {id}
    /\ UNCHANGED <<sq_requests, sq_next_request, sq_next_pair, sq_requeued>>
    /\ UNCHANGED notSched

\* Node::handle_es_remote_failed for a request whose EsRequest was sent: the
\* request is taken out of the vector with swap_remove and handed to
\* handle_epr_request_app again with its own received time.
SchedEsRemoteFailed ==
    /\ \E i \in {k \in DOMAIN sq_requests :
                    sq_requests[k].status.state = "WaitingForResponse"} :
          LET request == sq_requests[i]
              removed == swap_remove(sq_requests, position(sq_requests, request.epr))
              queued == Append(removed, [received |-> request.received,
                                         epr |-> request.epr,
                                         status |-> Queued, path |-> <<0, 1>>])
              s == schedule_from(0, 1, sq_cells, queued, 1)
          IN /\ sq_requests' = s.requests
             /\ sq_cells' = s.cells
             /\ sq_requeued' = sq_requeued \cup {request.epr.request_id}
    /\ UNCHANGED <<sq_next_request, sq_next_pair, sq_answered>>
    /\ UNCHANGED notSched

NextSched ==
    \/ SchedEprRequestApp
    \/ SchedEprEstablished
    \/ SchedEsRemoteComplete
    \/ SchedEsRemoteFailed
    \/ SchedConsume

SpecSched == InitSched /\ [][NextSched]_vars

\* The request ids of the vector with the status state.
SchedIds(requests, state) ==
    {requests[i].epr.request_id :
        i \in {k \in DOMAIN requests : requests[k].status.state = state}}

\* C36: a step that locks a request to a cell leaves no request Queued that
\* arrived before it (request ids are given in order of arrival; a request
\* queued again after a failure counts as arrived when it is queued again).
C36_ScheduledInArrivalOrder ==
    [][\A id \in SchedIds(sq_requests', "WaitingForResponse")
              \ SchedIds(sq_requests, "WaitingForResponse") :
          \A earlier \in SchedIds(sq_requests', "Queued") \ sq_requeued' :
              earlier > id]_vars

\* The scheduler itself serves the vector in order: a step that locks a
\* request leaves no request Queued in front of it in the vector.
SchedInVectorOrder ==
    [][\A i \in DOMAIN sq_requests' :
          (/\ sq_requests'[i].status.state = "WaitingForResponse"
           /\ sq_requests'[i].epr.request_id \notin SchedIds(sq_requests, "WaitingForResponse"))
          => \A k \in 1..(i - 1) : sq_requests'[k].status # Queued]_vars

\* The indices of the requests that wait for a response.
SchedWaiting == {i \in DOMAIN sq_requests : sq_requests[i].status.state = "WaitingForResponse"}

\* The local pair id of the cell a waiting request names.
SchedCellOf(i) == sq_requests[i].status.memory_cell.local_pair_id

\* C37: every request in WaitingForResponse names a cell of the master Nic
\* toward its peer that is Used, and two distinct waiting requests never
\* name the same cell.
C37_WaitingOnOwnUsedCell ==
    /\ \A i \in SchedWaiting :
          /\ sq_requests[i].status.memory_cell.neighbor_node_id = 1
          /\ sq_requests[i].status.memory_cell.role = "Master"
          /\ \E c \in DOMAIN sq_cells :
                /\ is_used(sq_cells[c])
                /\ sq_cells[c].local_pair_id = SchedCellOf(i)
    /\ \A i, j \in SchedWaiting : i # j => SchedCellOf(i) # SchedCellOf(j)

\* Two requests wait on the two cells of the Nic after an earlier request
\* has completed and its cell has been consumed and filled again.
C37_Witness ==
    /\ Cardinality(SchedWaiting) = 2
    /\ \A c \in DOMAIN sq_cells : is_used(sq_cells[c])
    /\ Len(sq_requests) < sq_next_request
    /\ sq_answered = {}

\* ------------------------------------------------------------ notified first
\* The step handles the EsRequest event e.
PopsEsRequest(e) ==
    /\ Popped(e, "EsRequest")
    /\ CopiesIn(e, events') < CopiesIn(e, events)

\* The slave-side EprNotified events of the pair that are still to be handled.
SlaveNotifiedPending(slave, epr_pair_id) ==
    {x \in BagToSet(events) :
        /\ x.type = "EprNotified"
        /\ x.data.role = "Slave"
        /\ x.data.this_node_id = slave
        /\ x.data.epr_pair_id = epr_pair_id}

\* C38: when the slave node handles an EsRequest naming a pair, it has
\* handled its EprNotified for that pair before: none is still in the queue.
C38_NotifiedBeforeEsRequest ==
    [][\A e \in BagToSet(events) :
          PopsEsRequest(e) =>
              SlaveNotifiedPending(e.data.next_hop, e.data.local_pair_id) = {}]_vars

\* With a transfer that takes time the EprNotified of the slave always comes
\* first.
NotifiedFirstIfLatencyPositive ==
    [][latency > 0 =>
          \A e \in BagToSet(events) :
              PopsEsRequest(e) =>
                  SlaveNotifiedPending(e.data.next_hop, e.data.local_pair_id) = {}]_vars

\* ------------------------------------------------------------ register entries
\* The endpoints of a pair of the register that have not consumed it.
Holders(epr_pair) ==
    {x.value : x \in {y \in {epr_pair.alice_id, epr_pair.bob_id} : y.some}}

\* A Nic of the node, of either role, has a non-empty cell with the pair.
StoredAt(n, epr_pair_id) ==
    \E nics \in {nics_master[n], nics_slave[n]} :
        \E p \in DOMAIN nics : \E i \in DOMAIN nics[p] :
            /\ ~is_empty(nics[p][i])
            /\ nics[p][i].local_pair_id = epr_pair_id

\* The EprNotified events of the pair that are still to be handled.
NotifiedPending(epr_pair_id) ==
    {x \in BagToSet(events) :
        x.type = "EprNotified" /\ x.data.epr_pair_id = epr_pair_id}

\* The number of memory cells of the Nics of the network.
NetworkCells ==
    LET RECURSIVE Sum(_, _)
        Sum(f, keys) == IF keys = {} THEN 0
                        ELSE LET k == CHOOSE x \in keys : TRUE
                             IN Len(f[k]) + Sum(f, keys \ {k})
        RECURSIVE Total(_, _)
        Total(nics, nodes) == IF nodes = {} THEN 0
                              ELSE LET n == CHOOSE x \in nodes : TRUE
                                   IN Sum(nics[n], DOMAIN nics[n])
                                      + Total(nics, nodes \ {n})
    IN Total(nics_master, DOMAIN nics_master) + Total(nics_slave, DOMAIN nics_slave)

\* C39: every pair of the register whose endpoints have both been notified
\* is stored in a non-empty cell of a Nic of an endpoint that has not
\* consumed it, and the register has no more entries than the network has
\* memory cells.
C39_RegisterEntriesStored ==
    /\ \A id \in DOMAIN epr_register.epr_pairs :
          NotifiedPending(id) = {} =>
              \E n \in Holders(epr_register.epr_pairs[id]) : StoredAt(n, id)
    /\ Cardinality(DOMAIN epr_register.epr_pairs) <= NetworkCells

\* The converse holds: a non-empty cell of a Nic names a pair of the register.
CellsNameRegisterEntries ==
    \A n \in DOMAIN nics_master :
        \A nics \in {nics_master[n], nics_slave[n]} :
            \A p \in DOMAIN nics : \A i \in DOMAIN nics[p] :
                ~is_empty(nics[p][i]) =>
                    nics[p][i].local_pair_id \in DOMAIN epr_register.epr_pairs

\* ------------------------------------------------------------ remote complete
\* The requests of the Client that got a successful EprResponse and are
\* still pending: the cell is known, or was taken by handle_local_complete.
Answered ==
    {id \in DOMAIN client.pending :
        \/ client.pending[id].memory_cell.some
        \/ client.pending[id].local_operations_done}

\* The application events about the request that are still to be handled:
\* only the handlers of these events change the pending map of the Client.
InFlightFor(id) ==
    {x \in BagToSet(events) :
        /\ x.type \in {"EprResponse", "LocalComplete", "RemoteComplete"}
        /\ x.data.epr.request_id = id}

\* C40: while the experiment runs, a request of the Client that got a
\* successful EprResponse and is still pending has an application event on
\* its way that leads to its removal: the LocalComplete of the Client, or the
\* completion of the Server and the RemoteComplete that follows from it.
C40_AnsweredRequestCompletes ==
    sim_status = "running" =>
        \A id \in Answered : InFlightFor(id) # {}

\* Up to the completion of its own local operations the request of the
\* Client does have an event on its way.
AnsweredAwaitsLocalComplete ==
    sim_status = "running" =>
        \A id \in Answered :
            ~client.pending[id].local_operations_done =>
                \E x \in InFlightFor(id) : x.type = "LocalComplete" /\ x.data.is_source

====
